---- MODULE Spec2Model ----
(***************************************************************************)
(* Ink2Markdown: the transcription orchestration engine.                   *)
(*                                                                         *)
(*   Spec      runConversionForFile + runWithConcurrency (page scheduler)  *)
(*                                                                         *)
(* Strings are sequences of atoms: an atom is one character, except MARK,  *)
(* which stands for the 13-character literal "==ILLEGIBLE==".              *)
(* An absent ProviderError.status is the number 0 (JavaScript tests it     *)
(* with !status, so undefined and 0 are the same to the code).             *)
(***************************************************************************)
EXTENDS Integers, Sequences, FiniteSets, TLC

\* ------------------------------------------------------------------ bounds
MaxTasks == 3
MaxLimit == 2

\* ------------------------------------------------------------------ errors
\* src/core/errors.ts: CancelledError, ProviderError(provider, message, status?)
\* and the built-in Error.  maxTok abstracts "the message matches the Azure
\* max_tokens pattern".
CancelledError == [kind |-> "cancelled", provider |-> "none", status |-> 0, maxTok |-> FALSE]
UnexpectedError == [kind |-> "unexpected", provider |-> "none", status |-> 0, maxTok |-> FALSE]
ProviderError(p, s, m) == [kind |-> "provider", provider |-> p, status |-> s, maxTok |-> m]
NoError == [kind |-> "none", provider |-> "none", status |-> 0, maxTok |-> FALSE]

\* errors a page task can reject with, as seen by the scheduler
TaskErrors == {CancelledError, UnexpectedError, ProviderError("openai", 401, FALSE)}

\* page texts a task can resolve with
PageValues == {<<>>, <<"a">>, <<"b">>}

VARIABLES
    \* --- CancellationToken
    cancelled,      \* token.cancelled
    \* --- runWithConcurrency
    nTasks,         \* tasks.length
    limit,          \* limit
    results,        \* results[i]; <<"empty">> is an unassigned slot
    inFlight,       \* inFlight
    index,          \* index (number of tasks launched so far)
    completed,      \* completed
    rejected,       \* rejected
    taskState,      \* per task: "unlaunched" | "running" | "resolved" | "rejected"
    taskOutcome,    \* per task: the value or error it settled with
    microtasks,     \* the microtask queue (FIFO) of promise reaction jobs
    outcome,        \* state of the promise returned by runWithConcurrency
    settleOrder,    \* history: the tasks in the order in which they settled
    \* --- runConversionForFile
    runPc,          \* "start" | "awaiting" | "modifying" | "returned"
    runResult,      \* what runConversionForFile returned
    noteWrites,     \* number of vault.modify calls issued
    noteText,       \* content handed to vault.modify (<<"orig">> before)
    \* --- settings
    maxLineRetries, \* settings.maxLineRetries
    maxPageRetries, \* settings.maxPageRetries
    \* --- transcribeImageWithRecovery / transcribeImageByLines / withRetry
    page,           \* the locals of one page's pipeline, see PageInit
    \* --- providers/http.ts executeWithRetry
    maxAttempts,    \* maxAttempts
    http,           \* the locals of one executeWithRetry call, see HttpInit
    \* --- providers/http.ts fetchWithRetry and the response cache
    fetch,          \* module state and callers of fetchWithRetry, see FetchInit
    \* --- providers/rate-limiter.ts
    limiter,        \* one RateLimiter and its clock, see LimiterInit
    \* --- core/cancellation.ts
    token,          \* the controllers of the CancellationToken, see TokenInit
    \* --- providers/http.ts buildRequestKey
    req,            \* two requests and their keys, see InitKey
    \* --- utils/error-handler.ts
    err,            \* a thrown value and its AppError, see ErrInit
    \* --- services/image-processor.ts, services/segmentation-worker.ts
    seg,            \* one image and its segmentation calls, see SegInit
    \* --- runConversionForFile over a two-page note
    note,           \* the pages of one note and their pipelines, see NoteInit
    \* --- one provider call that never succeeds
    retry           \* the call and how often it was invoked, see RetryInit

schedVars == <<nTasks, limit, results, inFlight, index, completed, rejected,
               taskState, taskOutcome, microtasks, outcome, settleOrder>>
runVars == <<runPc, runResult, noteWrites, noteText>>
pageVars == <<maxLineRetries, maxPageRetries, page>>
httpVars == <<maxAttempts, http>>
auxVars == <<fetch, limiter, token, req>>
extVars == <<err, seg, note, retry>>

\* the variables of the later sections, when a specification does not use them
ExtUnused ==
    /\ err = [pc |-> "unused"]
    /\ seg = [pc |-> "unused"]
    /\ note = [pc |-> "unused"]
    /\ retry = [pc |-> "unused"]
vars == <<cancelled, schedVars, runVars, pageVars, httpVars, auxVars, extVars>>

Empty == <<"empty">>
Pending == [kind |-> "pending", err |-> NoError]
Resolved == [kind |-> "resolved", err |-> NoError]
Rejected(e) == [kind |-> "rejected", err |-> e]

Job(i, s) == [task |-> i, stage |-> s]

Min(a, b) == IF a < b THEN a ELSE b
Max(a, b) == IF a > b THEN a ELSE b

\* ------------------------------------------------------ string utilities
\* String.prototype.trim on a sequence of atoms
IsSpace(c) == c \in {" ", "\n", "\r"}

RECURSIVE TrimStart(_)
TrimStart(s) == IF s # <<>> /\ IsSpace(Head(s)) THEN TrimStart(Tail(s)) ELSE s

RECURSIVE TrimEnd(_)
TrimEnd(s) ==
    IF s # <<>> /\ IsSpace(s[Len(s)]) THEN TrimEnd(SubSeq(s, 1, Len(s) - 1)) ELSE s

Trim(s) == TrimEnd(TrimStart(s))

\* Array.prototype.join(sep) over a sequence of strings
RECURSIVE Join(_, _)
Join(parts, sep) ==
    IF parts = <<>> THEN <<>>
    ELSE IF Len(parts) = 1 THEN parts[1]
    ELSE parts[1] \o sep \o Join(Tail(parts), sep)

\* ------------------------------------------------- utils/text-utils.ts
MARK == "==ILLEGIBLE=="

\* String.prototype.length: MARK is 13 characters, any other atom is one
AtomLen(c) == IF c = MARK THEN 13 ELSE 1

RECURSIVE StrLen(_)
StrLen(s) == IF s = <<>> THEN 0 ELSE AtomLen(Head(s)) + StrLen(Tail(s))

\* /\n/
IsNewline(c) == c = "\n"

\* [a-z0-9], for the characters that occur
IsLowerAlnum(c) ==
    c \in {"a", "b", "c", "e", "g", "i", "k", "l", "m", "u", "y", "0", "1"}

\* [^a-z0-9]
NotAlnum(c) == ~IsLowerAlnum(c)

\* [^a-z0-9']
NotWordChar(c) == ~(IsLowerAlnum(c) \/ c = "'")

\* the character classes of the regular expressions used with replace
InClass(cls, c) ==
    CASE cls = "\\n" -> IsNewline(c)
      [] cls = "\\s" -> IsSpace(c)
      [] cls = "[^a-z0-9]" -> NotAlnum(c)
      [] cls = "[^a-z0-9']" -> NotWordChar(c)

\* replace every maximal run of atoms of class cls by the one atom rep
\* (String.prototype.replace with /cls+/g)
RECURSIVE ReplaceRuns(_, _, _)
ReplaceRuns(s, cls, rep) ==
    IF s = <<>> THEN <<>>
    ELSE IF InClass(cls, Head(s))
         THEN IF Len(s) > 1 /\ InClass(cls, s[2])
              THEN ReplaceRuns(Tail(s), cls, rep)
              ELSE <<rep>> \o ReplaceRuns(Tail(s), cls, rep)
         ELSE <<Head(s)>> \o ReplaceRuns(Tail(s), cls, rep)

\* text.replace(/\r\n/g, "\n")
RECURSIVE ReplaceCRLF(_)
ReplaceCRLF(s) ==
    IF s = <<>> THEN <<>>
    ELSE IF Len(s) > 1 /\ s[1] = "\r" /\ s[2] = "\n"
         THEN <<"\n">> \o ReplaceCRLF(Tail(Tail(s)))
         ELSE <<Head(s)>> \o ReplaceCRLF(Tail(s))

\* normalizeMultilineOutput(text)
normalizeMultilineOutput(text) == Trim(ReplaceCRLF(text))

\* normalizeLineOutput(text)
normalizeLineOutput(text) ==
    LET normalized == normalizeMultilineOutput(text)
    IN IF normalized = <<>> THEN <<>>
       ELSE Trim(ReplaceRuns(ReplaceRuns(normalized, "\\n", " "), "\\s", " "))

\* countIllegible(text): matches of /==ILLEGIBLE==/g
RECURSIVE countIllegible(_)
countIllegible(text) ==
    IF text = <<>> THEN 0
    ELSE (IF Head(text) = MARK THEN 1 ELSE 0) + countIllegible(Tail(text))

\* hasIllegibleToken(text)
hasIllegibleToken(text) == \E k \in 1..Len(text) : text[k] = MARK

\* pickBetterLine(a, b)
pickBetterLinePreferB(a, b) ==
    LET aIllegible == countIllegible(a)
        bIllegible == countIllegible(b)
    IN IF aIllegible # bIllegible
       THEN (IF aIllegible < bIllegible THEN a ELSE b)
       ELSE IF StrLen(a) # StrLen(b)
       THEN (IF StrLen(a) > StrLen(b) THEN a ELSE b)
       ELSE b

pickBetterLine(a, b) ==
    LET aIllegible == countIllegible(a)
        bIllegible == countIllegible(b)
    IN IF aIllegible # bIllegible
       THEN (IF aIllegible < bIllegible THEN a ELSE b)
       ELSE IF StrLen(a) # StrLen(b)
       THEN (IF StrLen(a) > StrLen(b) THEN a ELSE b)
       ELSE a

\* String.prototype.toLowerCase, atom by atom, giving single characters
LowerChars(c) ==
    CASE c = MARK -> <<"=", "=", "i", "l", "l", "e", "g", "i", "b", "l", "e", "=", "=">>
      [] c = "A" -> <<"a">>
      [] c = "B" -> <<"b">>
      [] OTHER -> <<c>>

RECURSIVE ToLowerCase(_)
ToLowerCase(s) == IF s = <<>> THEN <<>> ELSE LowerChars(Head(s)) \o ToLowerCase(Tail(s))

\* text.replace(/==illegible==/g, " illegible ") on lower-cased characters
RECURSIVE ReplaceIllegible(_)
ReplaceIllegible(s) ==
    IF s = <<>> THEN <<>>
    ELSE IF Len(s) >= 13 /\ SubSeq(s, 1, 13) = LowerChars(MARK)
         THEN <<" ", "i", "l", "l", "e", "g", "i", "b", "l", "e", " ">>
                  \o ReplaceIllegible(SubSeq(s, 14, Len(s)))
         ELSE <<Head(s)>> \o ReplaceIllegible(Tail(s))

\* normalized.split(/\s+/) of a trimmed, non-empty string
RECURSIVE SplitWs(_, _)
SplitWs(s, word) ==
    IF s = <<>> THEN <<word>>
    ELSE IF IsSpace(Head(s))
         THEN (IF Len(s) > 1 /\ IsSpace(s[2])
               THEN SplitWs(Tail(s), word)
               ELSE <<word>> \o SplitWs(Tail(s), <<>>))
         ELSE SplitWs(Tail(s), Append(word, Head(s)))

\* tokenizeWords(text)
tokenizeWords(text) ==
    LET normalized == Trim(ReplaceRuns(ReplaceIllegible(ToLowerCase(text)), "[^a-z0-9']", " "))
    IN IF normalized # <<>> THEN SplitWs(normalized, <<>>) ELSE <<>>

\* preservesWordSequence(raw, formatted)
preservesWordSequence(raw, formatted) ==
    LET rawWords == tokenizeWords(raw)
        formattedWords == tokenizeWords(formatted)
    IN IF Len(rawWords) # Len(formattedWords) THEN FALSE
       ELSE \A k \in 1..Len(rawWords) : rawWords[k] = formattedWords[k]

\* normalizeLineForSimilarity(line)
normalizeLineForSimilarity(line) ==
    Trim(ReplaceRuns(ReplaceRuns(ToLowerCase(Trim(line)), "[^a-z0-9]", " "), "\\s", " "))

Min3(x, y, z) == Min(x, Min(y, z))

\* one row of the distance table: cur[0] = i, cur[j] = min(prev[j] + 1,
\* cur[j-1] + 1, prev[j-1] + cost); rows are sequences, column j at j + 1
RECURSIVE LevRow(_, _, _, _)
LevRow(prev, aChar, b, cur) ==
    LET j == Len(cur)
    IN IF j > Len(b) THEN cur
       ELSE LET cost == IF aChar = b[j] THEN 0 ELSE 1
            IN LevRow(prev, aChar, b,
                      Append(cur, Min3(prev[j + 1] + 1, cur[j] + 1, prev[j] + cost)))

RECURSIVE LevRows(_, _, _, _)
LevRows(a, b, i, prev) ==
    IF i > Len(a) THEN prev
    ELSE LET cur == LevRow(prev, a[i], b, <<i>>)
         IN IF Len(cur) = Len(prev)     \* (always: the row is complete before prev = cur)
            THEN LevRows(a, b, i + 1, cur)
            ELSE prev

\* levenshteinDistance(a, b)
levenshteinDistance(a, b) ==
    IF Len(a) = 0 THEN Len(b)
    ELSE IF Len(b) = 0 THEN Len(a)
    ELSE LevRows(a, b, 1, [j \in 1..(Len(b) + 1) |-> j - 1])[Len(b) + 1]

\* lineSimilarity(lineA, lineB), as the fraction num/den
lineSimilarityEmptyDiffers(lineA, lineB) ==
    LET a == normalizeLineForSimilarity(lineA)
        b == normalizeLineForSimilarity(lineB)
        maxLen == Max(Len(a), Len(b))
    IN IF a = <<>> \/ b = <<>> THEN [num |-> 0, den |-> 1]
       ELSE [num |-> maxLen - levenshteinDistance(a, b), den |-> maxLen]

lineSimilarity(lineA, lineB) ==
    LET a == normalizeLineForSimilarity(lineA)
        b == normalizeLineForSimilarity(lineB)
        maxLen == Max(Len(a), Len(b))
    IN IF a = <<>> /\ b = <<>> THEN [num |-> 1, den |-> 1]
       ELSE IF a = <<>> \/ b = <<>> THEN [num |-> 0, den |-> 1]
       ELSE [num |-> maxLen - levenshteinDistance(a, b), den |-> maxLen]

\* LINE_CONSENSUS_SIMILARITY = 0.96, as the fraction 96/100
LINE_CONSENSUS_SIMILARITY == [num |-> 96, den |-> 100]

\* x >= y on fractions with positive denominators
FracGE(x, y) == x.num * y.den >= y.num * x.den

FracMax(x, y) == IF FracGE(x, y) THEN x ELSE y

\* ------------------------------------------------------ runWithConcurrency
\* the while loop of launchNext: launches tasks while inFlight < limit and
\* index < tasks.length.  st = [inFlight, index, taskState]
LaunchCondOffByOne(inF, idx, lim, n) == inF <= lim /\ idx < n

LaunchCond(inF, idx, lim, n) == inF < lim /\ idx < n

RECURSIVE LaunchLoop(_, _, _)
LaunchLoop(st, lim, n) ==
    IF LaunchCond(st.inFlight, st.index, lim, n)
    THEN LaunchLoop([inFlight |-> st.inFlight + 1,
                     index |-> st.index + 1,
                     taskState |-> [st.taskState EXCEPT ![st.index + 1] = "running"]],
                    lim, n)
    ELSE st

\* resolve(...) / reject(...) of the promise returned by runWithConcurrency:
\* only the first settlement takes effect; it queues the continuation of the
\* caller's await.  q is the microtask queue left by the running job.
Settle(o, q) ==
    IF outcome.kind = "pending"
    THEN /\ outcome' = o
         /\ microtasks' = Append(q, Job(0, "resume"))
    ELSE /\ outcome' = outcome
         /\ microtasks' = q

\* launchNext without the token check
LaunchNextNoTokenCheck(inF, q) ==
    IF rejected
    THEN /\ inFlight' = inF
         /\ microtasks' = q
         /\ UNCHANGED <<index, taskState, rejected, outcome>>
    ELSE LET st == LaunchLoop([inFlight |-> inF, index |-> index, taskState |-> taskState],
                              limit, nTasks)
         IN /\ inFlight' = st.inFlight
            /\ index' = st.index
            /\ taskState' = st.taskState
            /\ microtasks' = q
            /\ UNCHANGED <<rejected, outcome>>

\* launchNext(): returns without effect when rejected; rejects with
\* CancelledError when the token is cancelled; otherwise runs the launch loop.
\* inF is inFlight on entry, q the microtask queue left by the running job.
LaunchNext(inF, q) ==
    IF rejected
    THEN /\ inFlight' = inF
         /\ microtasks' = q
         /\ UNCHANGED <<index, taskState, rejected, outcome>>
    ELSE IF cancelled
    THEN /\ inFlight' = inF
         /\ rejected' = TRUE
         /\ Settle(Rejected(CancelledError), q)
         /\ UNCHANGED <<index, taskState>>
    ELSE LET st == LaunchLoop([inFlight |-> inF, index |-> index, taskState |-> taskState],
                              limit, nTasks)
         IN /\ inFlight' = st.inFlight
            /\ index' = st.index
            /\ taskState' = st.taskState
            /\ microtasks' = q
            /\ UNCHANGED <<rejected, outcome>>

\* runConversionForFile up to `await runWithConcurrency(tasks, limit, token)`:
\* the Promise executor calls launchNext() synchronously.
Start ==
    /\ runPc = "start"
    /\ runPc' = "awaiting"
    /\ LaunchNext(inFlight, microtasks)
    /\ UNCHANGED <<cancelled, nTasks, limit, results, completed, taskOutcome,
                   settleOrder, runResult, noteWrites, noteText, pageVars, httpVars, auxVars, extVars>>

\* a launched task's promise settles: it resolves with a page text or rejects
\* with an error; the reaction registered by .then() is queued.
TaskResolve(i) ==
    /\ i \in 1..nTasks
    /\ taskState[i] = "running"
    /\ \E v \in PageValues :
          taskOutcome' = [taskOutcome EXCEPT ![i] = [val |-> v, err |-> NoError]]
    /\ taskState' = [taskState EXCEPT ![i] = "resolved"]
    /\ microtasks' = Append(microtasks, Job(i, "then"))
    /\ settleOrder' = Append(settleOrder, i)
    /\ UNCHANGED <<cancelled, nTasks, limit, results, inFlight, index, completed,
                   rejected, outcome, runVars, pageVars, httpVars, auxVars, extVars>>

TaskReject(i) ==
    /\ i \in 1..nTasks
    /\ taskState[i] = "running"
    /\ \E e \in TaskErrors :
          taskOutcome' = [taskOutcome EXCEPT ![i] = [val |-> <<>>, err |-> e]]
    /\ settleOrder' = Append(settleOrder, i)
    /\ taskState' = [taskState EXCEPT ![i] = "rejected"]
    /\ microtasks' = Append(microtasks, Job(i, "then"))
    /\ UNCHANGED <<cancelled, nTasks, limit, results, inFlight, index, completed,
                   rejected, outcome, runVars, pageVars, httpVars, auxVars, extVars>>

\* results stored in completion order instead of task order
ResultSlotByCompletion(current, done) == done + 1

\* the slot a task's result is stored in: results[current] = result
ResultSlot(current, done) == current

\* .then((result) => { results[current] = result; completed += 1; })
ThenJob ==
    /\ microtasks # <<>>
    /\ Head(microtasks).stage = "then"
    /\ LET i == Head(microtasks).task IN
       /\ IF taskState[i] = "resolved"
          THEN /\ results' = [results EXCEPT ![ResultSlot(i, completed)] = taskOutcome[i].val]
               /\ completed' = completed + 1
          ELSE UNCHANGED <<results, completed>>
       /\ microtasks' = Append(Tail(microtasks), Job(i, "catch"))
    /\ UNCHANGED <<cancelled, nTasks, limit, inFlight, index, rejected, taskState,
                   taskOutcome, outcome, settleOrder, runVars, pageVars, httpVars, auxVars, extVars>>

\* the handler without token.cancel()
CatchHandlerNoCancel(error, q) ==
    IF ~rejected
    THEN /\ rejected' = TRUE
         /\ cancelled' = cancelled
         /\ Settle(Rejected(error), q)
    ELSE /\ microtasks' = q
         /\ UNCHANGED <<rejected, cancelled, outcome>>

\* (error) => { if (!rejected) { rejected = true; token.cancel(); reject(error); } }
CatchHandler(error, q) ==
    IF ~rejected
    THEN /\ rejected' = TRUE
         /\ cancelled' = TRUE
         /\ Settle(Rejected(error), q)
    ELSE /\ microtasks' = q
         /\ UNCHANGED <<rejected, cancelled, outcome>>

\* the reaction registered by .catch(): runs the handler for a rejected task,
\* passes a fulfilled one through
CatchJob ==
    /\ microtasks # <<>>
    /\ Head(microtasks).stage = "catch"
    /\ LET i == Head(microtasks).task
           q == Append(Tail(microtasks), Job(i, "finally")) IN
       IF taskState[i] = "rejected"
       THEN CatchHandler(taskOutcome[i].err, q)
       ELSE /\ microtasks' = q
            /\ UNCHANGED <<rejected, cancelled, outcome>>
    /\ UNCHANGED <<nTasks, limit, results, inFlight, index, completed, taskState,
                   taskOutcome, settleOrder, runVars, pageVars, httpVars, auxVars, extVars>>

\* completed === tasks.length
AllCompleted(c, n) == c = n

\* .finally(() => { inFlight -= 1; if (!rejected) { if (completed === tasks.length)
\*                  resolve(results); else launchNext(); } })
FinallyJob ==
    /\ microtasks # <<>>
    /\ Head(microtasks).stage = "finally"
    /\ IF rejected
       THEN /\ inFlight' = inFlight - 1
            /\ microtasks' = Tail(microtasks)
            /\ UNCHANGED <<index, taskState, rejected, outcome>>
       ELSE IF AllCompleted(completed, nTasks)
       THEN /\ inFlight' = inFlight - 1
            /\ Settle(Resolved, Tail(microtasks))
            /\ UNCHANGED <<index, taskState, rejected>>
       ELSE LaunchNext(inFlight - 1, Tail(microtasks))
    /\ UNCHANGED <<cancelled, nTasks, limit, results, completed, taskOutcome,
                   settleOrder, runVars, pageVars, httpVars, auxVars, extVars>>

\* the cancel button of the progress modal: token.cancel().  A click is a
\* macrotask, so it runs only when the microtask queue is empty; the modal is
\* open from before the scheduler starts until runConversionForFile returns.
UserCancel ==
    /\ runPc \in {"awaiting", "modifying"}
    /\ microtasks = <<>>
    /\ ~cancelled
    /\ cancelled' = TRUE
    /\ UNCHANGED <<schedVars, runVars, pageVars, httpVars, auxVars, extVars>>

\* the check left out
ThrowIfCancelledMissing(isCancelled) == FALSE

\* if (token.cancelled) { throw new CancelledError(); }  (plugin.ts 270, 288)
ThrowIfCancelled(isCancelled) == isCancelled

\* runConversionForFile after the await (plugin.ts 268-304): a rejection, or a
\* cancelled token, goes to the catch block (token.cancel(), return null); an
\* empty joined text returns null; otherwise the note is modified.
ResumeJob ==
    /\ microtasks # <<>>
    /\ Head(microtasks).stage = "resume"
    /\ runPc = "awaiting"
    /\ microtasks' = Tail(microtasks)
    /\ LET pageMarkdown == [i \in 1..nTasks |-> results[i]]
           combinedTrimmed == Trim(Join(pageMarkdown, <<"\n", "\n">>))
       IN IF outcome.kind = "rejected" \/ ThrowIfCancelled(cancelled)
          THEN /\ cancelled' = TRUE
               /\ runPc' = "returned"
               /\ runResult' = "null"
               /\ UNCHANGED <<noteWrites, noteText>>
          ELSE IF combinedTrimmed = <<>>
          THEN /\ runPc' = "returned"
               /\ runResult' = "null"
               /\ UNCHANGED <<cancelled, noteWrites, noteText>>
          ELSE /\ runPc' = "modifying"
               /\ noteWrites' = noteWrites + 1
               /\ noteText' = combinedTrimmed
               /\ UNCHANGED <<cancelled, runResult>>
    /\ UNCHANGED <<nTasks, limit, results, inFlight, index, completed, rejected,
                   taskState, taskOutcome, outcome, settleOrder, pageVars, httpVars, auxVars, extVars>>

\* await this.app.vault.modify(file, updated) settles: success returns the
\* text, failure goes to the catch block.
ModifyDone ==
    /\ runPc = "modifying"
    /\ runPc' = "returned"
    /\ \/ /\ runResult' = "text"
          /\ UNCHANGED cancelled
       \/ /\ runResult' = "null"
          /\ cancelled' = TRUE
    /\ UNCHANGED <<schedVars, noteWrites, noteText, pageVars, httpVars, auxVars, extVars>>

\* the page pipeline is not part of this specification
PageUnused ==
    /\ maxLineRetries = 0
    /\ maxPageRetries = 0
    /\ page = [pc |-> "unused"]

\* executeWithRetry is not part of this specification
HttpUnused ==
    /\ maxAttempts = 0
    /\ http = [pc |-> "unused"]

\* fetchWithRetry, the limiter, the token's controllers and the request keys
\* are not part of this specification
AuxUnused ==
    /\ fetch = [pc |-> "unused"]
    /\ limiter = [pc |-> "unused"]
    /\ token = [pc |-> "unused"]
    /\ req = [pc |-> "unused"]

Init ==
    /\ ExtUnused
    /\ cancelled \in BOOLEAN
    /\ nTasks \in 0..MaxTasks
    /\ limit \in 1..MaxLimit
    /\ results = [i \in 1..nTasks |-> Empty]
    /\ inFlight = 0
    /\ index = 0
    /\ completed = 0
    /\ rejected = FALSE
    /\ taskState = [i \in 1..nTasks |-> "unlaunched"]
    /\ taskOutcome = [i \in 1..nTasks |-> [val |-> <<>>, err |-> NoError]]
    /\ microtasks = <<>>
    /\ outcome = Pending
    /\ settleOrder = <<>>
    /\ runPc = "start"
    /\ runResult = "none"
    /\ noteWrites = 0
    /\ noteText = <<"orig">>
    /\ PageUnused
    /\ HttpUnused
    /\ AuxUnused

Next ==
    \/ Start
    \/ \E i \in 1..MaxTasks : TaskResolve(i)
    \/ \E i \in 1..MaxTasks : TaskReject(i)
    \/ ThenJob
    \/ CatchJob
    \/ FinallyJob
    \/ ResumeJob
    \/ UserCancel
    \/ ModifyDone

Spec == Init /\ [][Next]_vars

\* ------------------------------------------------ utils/error-handler.ts
\* isAzureMaxTokensError(error)
isAzureMaxTokensError(error) ==
    IF error.kind # "provider" THEN FALSE
    ELSE IF error.provider # "azure" \/ error.status # 400 THEN FALSE
    ELSE error.maxTok

isRecoverableErrorWithoutMaxTokens(error) ==
    IF error.kind = "cancelled" THEN TRUE
    ELSE IF error.kind = "provider"
    THEN error.status = 0 \/ error.status = 429 \/ error.status >= 500
    ELSE FALSE

\* isRecoverableError(error) == toAppError(error).recoverable
isRecoverableError(error) ==
    IF error.kind = "cancelled" THEN TRUE
    ELSE IF error.kind = "provider"
    THEN error.status = 0 \/ error.status = 429 \/ error.status >= 500
            \/ isAzureMaxTokensError(error)
    ELSE FALSE

\* ------------------- transcribeImageWithRecovery / transcribeImageByLines
MaxLines == 2
MaxLineRetries == 1
MaxPageRetries == 1

RECURSIVE Rep(_, _)
Rep(c, n) == IF n = 0 THEN <<>> ELSE <<c>> \o Rep(c, n - 1)

\* what the provider answers in the page specification: nothing, a line and
\* a different line (similarity 0)
PageResponses == {<<>>, <<"a">>, <<"b">>}

\* what a provider call can reject with
CallErrors ==
    {CancelledError, ProviderError("openai", 429, FALSE), ProviderError("openai", 401, FALSE)}

NoArbiter == [used |-> FALSE, text |-> <<>>]
NoLine == [slice |-> 0, candidateA |-> <<>>, candidateB |-> <<>>, arbiter |-> NoArbiter,
           chosen |-> <<>>]

\* transcribeImageWithRecovery has entered its first attempt and
\* transcribeImageByLines awaits segmentImageIntoLines
PageInit ==
    [pc |-> "segmenting",       \* segmenting | call | lineBackoff | pageBackoff | returned | failed
     attempt |-> 0,             \* transcribeImageWithRecovery: attempt
     totalLines |-> 0,          \* lineSlices.length
     lineIdx |-> 0,             \* position of lineSlice in lineSlices (1-based)
     callKind |-> "none",       \* the provider call withRetry is running: A | B | J | F
     lineAttempt |-> 0,         \* withRetry: attempt
     lineError |-> NoError,     \* withRetry: the error caught, while it waits
     candidateA |-> <<>>,
     candidateB |-> <<>>,
     chosen |-> <<>>,
     arbiter |-> NoArbiter,     \* normalized output of judgeLine for this slice
     lastLine |-> NoLine,       \* history: the slice finished last
     formatted |-> <<>>,        \* formatted
     lineResults |-> <<>>,
     rawPage |-> <<>>,
     result |-> <<>>,           \* the page text returned
     error |-> NoError,         \* lastError / the error thrown
     outstanding |-> {},        \* provider calls issued and not settled
     sliceLog |-> <<>>]         \* calls started and settled for the current slice

ProviderCall(slice, kind) == [slice |-> slice, kind |-> kind]
Event(ev, kind) == [ev |-> ev, kind |-> kind]

\* task(): the provider call of kind k is issued for the current slice
IssueCall(st, k) ==
    [st EXCEPT !.pc = "call",
               !.callKind = k,
               !.outstanding = @ \cup {ProviderCall(st.lineIdx, k)},
               !.sliceLog = Append(@, Event("start", k))]

\* withRetry(task, maxRetries) is entered: attempt = 0, task()
StartWithRetry(st, k) == IssueCall([st EXCEPT !.lineAttempt = 0], k)

\* plugin.ts 346: attempt >= maxPageRetries || !isRecoverableError(error) || token.cancelled
PageGivesUpIgnoresToken(attempt, error, isCancelled) ==
    attempt >= maxPageRetries \/ ~isRecoverableError(error)

PageGivesUp(attempt, error, isCancelled) ==
    attempt >= maxPageRetries \/ ~isRecoverableError(error) \/ isCancelled

\* the catch block of transcribeImageWithRecovery: throw, or wait 250 * (attempt + 1)
PageCatch(st, error, isCancelled) ==
    IF PageGivesUp(st.attempt, error, isCancelled)
    THEN [st EXCEPT !.pc = "failed", !.error = error, !.callKind = "none"]
    ELSE [st EXCEPT !.pc = "pageBackoff", !.error = error, !.callKind = "none"]

\* transcription.ts 119-129: join the line texts; an empty page returns "",
\* otherwise the page-format call is issued
AfterLinesAlwaysFormats(st) ==
    LET rawPage == TrimEnd(Join([k \in 1..Len(st.lineResults) |-> st.lineResults[k].text],
                                <<"\n">>))
    IN StartWithRetry([st EXCEPT !.rawPage = rawPage,
                                 !.lineIdx = st.totalLines + 1,
                                 !.sliceLog = <<>>], "F")

AfterLines(st) ==
    LET rawPage == TrimEnd(Join([k \in 1..Len(st.lineResults) |-> st.lineResults[k].text],
                                <<"\n">>))
    IN IF rawPage = <<>>
       THEN [st EXCEPT !.pc = "returned", !.result = <<>>, !.callKind = "none",
                       !.rawPage = rawPage]
       ELSE StartWithRetry([st EXCEPT !.rawPage = rawPage,
                                      !.lineIdx = st.totalLines + 1,
                                      !.sliceLog = <<>>], "F")

\* the head of `for (const lineSlice of lineSlices)` for slice i: the loop
\* ends after the last slice; a cancelled token throws CancelledError;
\* otherwise the first transcribe-line call is issued
LoopHeadWithoutTokenCheck(st, i, isCancelled) ==
    IF i > st.totalLines THEN AfterLines(st)
    ELSE StartWithRetry([st EXCEPT !.lineIdx = i,
                                   !.candidateA = <<>>,
                                   !.candidateB = <<>>,
                                   !.chosen = <<>>,
                                   !.arbiter = NoArbiter,
                                   !.sliceLog = <<>>], "A")

LoopHead(st, i, isCancelled) ==
    IF i > st.totalLines THEN AfterLines(st)
    ELSE IF isCancelled THEN PageCatch(st, CancelledError, isCancelled)
    ELSE StartWithRetry([st EXCEPT !.lineIdx = i,
                                   !.candidateA = <<>>,
                                   !.candidateB = <<>>,
                                   !.chosen = <<>>,
                                   !.arbiter = NoArbiter,
                                   !.sliceLog = <<>>], "A")

\* transcription.ts 107-116: keep a non-empty chosen text, go to the next slice
FinishLine(st, chosen, confidence, isCancelled) ==
    LET line == [text |-> chosen, confidence |-> confidence,
                 unresolved |-> hasIllegibleToken(chosen)]
        kept == IF chosen # <<>> THEN Append(st.lineResults, line) ELSE st.lineResults
        done == [slice |-> st.lineIdx, candidateA |-> st.candidateA,
                 candidateB |-> st.candidateB, arbiter |-> st.arbiter,
                 chosen |-> chosen]
    IN LoopHead([st EXCEPT !.chosen = chosen, !.lineResults = kept, !.lastLine = done],
                st.lineIdx + 1, isCancelled)

\* similarity >= LINE_CONSENSUS_SIMILARITY
ConsensusReachedNever(similarity) == FALSE

ConsensusReached(similarity) == FracGE(similarity, LINE_CONSENSUS_SIMILARITY)

\* transcription.ts 83-99: the normalized arbiter output, or the better
\* candidate when it is empty
ChooseArbitrated(judged, a, b) == IF judged # <<>> THEN judged ELSE pickBetterLine(a, b)

\* transcription.ts 131-135: the page text returned after the format call
AcceptFormattedUnchecked(rawPage, formatted) ==
    IF formatted = <<>> THEN rawPage ELSE formatted

AcceptFormatted(rawPage, formatted) ==
    IF formatted = <<>> THEN rawPage
    ELSE IF preservesWordSequence(rawPage, formatted) THEN formatted ELSE rawPage

\* the awaited provider call resolved with text r: the code that runs until
\* the next await
OnResolve(st0, r, isCancelled) ==
    LET k == st0.callKind
        st == [st0 EXCEPT !.outstanding = @ \ {ProviderCall(st0.lineIdx, k)},
                          !.sliceLog = Append(@, Event("resolve", k))]
    IN CASE k = "A" ->
              StartWithRetry([st EXCEPT !.candidateA = normalizeLineOutput(r)], "B")
         [] k = "B" ->
              LET candidateB == normalizeLineOutput(r)
                  similarity == lineSimilarity(st.candidateA, candidateB)
                  stB == [st EXCEPT !.candidateB = candidateB]
              IN IF ConsensusReached(similarity)
                 THEN FinishLine(stB, pickBetterLine(st.candidateA, candidateB),
                                 similarity, isCancelled)
                 ELSE StartWithRetry(stB, "J")
         [] k = "J" ->
              LET judged == normalizeLineOutput(r)
                  chosen == ChooseArbitrated(judged, st.candidateA, st.candidateB)
                  similarity == lineSimilarity(st.candidateA, st.candidateB)
                  confidence == FracMax(similarity,
                                        FracMax(lineSimilarity(chosen, st.candidateA),
                                                lineSimilarity(chosen, st.candidateB)))
              IN FinishLine([st EXCEPT !.arbiter = [used |-> TRUE, text |-> judged]],
                            chosen, confidence, isCancelled)
         [] k = "F" ->
              LET formatted == normalizeMultilineOutput(r)
              IN [st EXCEPT !.pc = "returned",
                            !.callKind = "none",
                            !.formatted = formatted,
                            !.result = AcceptFormatted(st.rawPage, formatted)]

\* withRetry: attempt >= maxRetries || !isRecoverableError(error)
LineGivesUpAnyError(attempt, error) == attempt >= maxLineRetries

LineGivesUp(attempt, error) == attempt >= maxLineRetries \/ ~isRecoverableError(error)

\* the awaited provider call rejected with error e: withRetry's catch block
\* rethrows (to transcribeImageWithRecovery) or waits 200 * (attempt + 1)
OnRejectFormatFallsBack(st0, e, isCancelled) ==
    LET k == st0.callKind
        st == [st0 EXCEPT !.outstanding = @ \ {ProviderCall(st0.lineIdx, k)},
                          !.sliceLog = Append(@, Event("reject", k))]
    IN IF LineGivesUp(st.lineAttempt, e)
       THEN IF k = "F"
            THEN [st EXCEPT !.pc = "returned", !.callKind = "none", !.result = st.rawPage]
            ELSE PageCatch(st, e, isCancelled)
       ELSE [st EXCEPT !.pc = "lineBackoff", !.lineError = e]

OnRejectWithoutLineRetry(st0, e, isCancelled) ==
    LET k == st0.callKind
        st == [st0 EXCEPT !.outstanding = @ \ {ProviderCall(st0.lineIdx, k)},
                          !.sliceLog = Append(@, Event("reject", k))]
    IN PageCatch(st, e, isCancelled)

OnReject(st0, e, isCancelled) ==
    LET k == st0.callKind
        st == [st0 EXCEPT !.outstanding = @ \ {ProviderCall(st0.lineIdx, k)},
                          !.sliceLog = Append(@, Event("reject", k))]
    IN IF LineGivesUp(st.lineAttempt, e)
       THEN PageCatch(st, e, isCancelled)
       ELSE [st EXCEPT !.pc = "lineBackoff", !.lineError = e]

\* segmentImageIntoLines resolves with n slices
SegmentDone ==
    /\ page.pc = "segmenting"
    /\ \E n \in 0..MaxLines :
          page' = LoopHead([page EXCEPT !.totalLines = n], 1, cancelled)
    /\ UNCHANGED <<cancelled, maxLineRetries, maxPageRetries, schedVars, runVars, httpVars, auxVars, extVars>>

\* segmentImageIntoLines rejects (the image does not decode)
SegmentFail ==
    /\ page.pc = "segmenting"
    /\ page' = PageCatch(page, UnexpectedError, cancelled)
    /\ UNCHANGED <<cancelled, maxLineRetries, maxPageRetries, schedVars, runVars, httpVars, auxVars, extVars>>

ResponsesFor(k, RLine, RJudge, RFormat) ==
    CASE k = "J" -> RJudge
      [] k = "F" -> RFormat
      [] OTHER -> RLine

\* a provider call resolves with some text
ProviderResolve(RLine, RJudge, RFormat) ==
    /\ page.pc = "call"
    /\ \E r \in ResponsesFor(page.callKind, RLine, RJudge, RFormat) :
          page' = OnResolve(page, r, cancelled)
    /\ UNCHANGED <<cancelled, maxLineRetries, maxPageRetries, schedVars, runVars, httpVars, auxVars, extVars>>

\* a provider call rejects; it rejects with CancelledError only when the
\* token is cancelled (providers/http.ts 97, 123, 148, 163)
ProviderReject ==
    /\ page.pc = "call"
    /\ \E e \in CallErrors :
          /\ e = CancelledError => cancelled
          /\ page' = OnReject(page, e, cancelled)
    /\ UNCHANGED <<cancelled, maxLineRetries, maxPageRetries, schedVars, runVars, httpVars, auxVars, extVars>>

\* withRetry: wait(200 * (attempt + 1)) is over, attempt += 1, task()
LineBackoffDone ==
    /\ page.pc = "lineBackoff"
    /\ page' = IssueCall([page EXCEPT !.lineAttempt = @ + 1, !.lineError = NoError],
                          page.callKind)
    /\ UNCHANGED <<cancelled, maxLineRetries, maxPageRetries, schedVars, runVars, httpVars, auxVars, extVars>>

\* transcribeImageWithRecovery: wait(250 * (attempt + 1)) is over,
\* attempt += 1, transcribeImageByLines is called again
PageBackoffDone ==
    /\ page.pc = "pageBackoff"
    /\ page' = [PageInit EXCEPT !.attempt = page.attempt + 1, !.error = page.error]
    /\ UNCHANGED <<cancelled, maxLineRetries, maxPageRetries, schedVars, runVars, httpVars, auxVars, extVars>>

\* token.cancel() while the page pipeline is suspended
PageCancel ==
    /\ page.pc \in {"segmenting", "call", "lineBackoff", "pageBackoff"}
    /\ ~cancelled
    /\ cancelled' = TRUE
    /\ UNCHANGED <<pageVars, schedVars, runVars, httpVars, auxVars, extVars>>

\* the scheduler and the conversion run are not part of the page specifications
SchedUnused ==
    /\ nTasks = 0
    /\ limit = 1
    /\ results = <<>>
    /\ inFlight = 0
    /\ index = 0
    /\ completed = 0
    /\ rejected = FALSE
    /\ taskState = <<>>
    /\ taskOutcome = <<>>
    /\ microtasks = <<>>
    /\ outcome = Pending
    /\ settleOrder = <<>>
    /\ runPc = "unused"
    /\ runResult = "none"
    /\ noteWrites = 0
    /\ noteText = <<"orig">>

InitPage ==
    /\ ExtUnused
    /\ cancelled = FALSE
    /\ maxLineRetries \in 0..MaxLineRetries
    /\ maxPageRetries \in 0..MaxPageRetries
    /\ page = PageInit
    /\ SchedUnused
    /\ HttpUnused
    /\ AuxUnused

NextPage ==
    \/ SegmentDone
    \/ SegmentFail
    \/ ProviderResolve(PageResponses, PageResponses, PageResponses)
    \/ ProviderReject
    \/ LineBackoffDone
    \/ PageBackoffDone
    \/ PageCancel

SpecPage == InitPage /\ [][NextPage]_vars

\* ---------------------------------- one line, over all short candidates
MaxLineLen == 2
MaxJudgeLen == 1

\* all strings of at most n atoms
Strings(atoms, n) == UNION {[1..k -> atoms] : k \in 0..n}

LineAtoms == {"a", "b", ".", MARK}
JudgeAtoms == {"a", " ", "\n", MARK}

\* lines of 23 to 25 characters one edit apart: similarities 24/25 = 0.96
\* and 23/24 < 0.96
ThresholdLines ==
    {Rep("a", 25), Rep("a", 24) \o <<"b">>, Rep("a", 24), Rep("a", 23) \o <<"b">>}

LineResponses == Strings(LineAtoms, MaxLineLen) \cup ThresholdLines
JudgeResponses == Strings(JudgeAtoms, MaxJudgeLen)

\* a page of one slice whose first transcribe-line call has been issued
InitLine ==
    /\ ExtUnused
    /\ cancelled = FALSE
    /\ maxLineRetries = 0
    /\ maxPageRetries = 0
    /\ page = LoopHead([PageInit EXCEPT !.totalLines = 1], 1, FALSE)
    /\ SchedUnused
    /\ HttpUnused
    /\ AuxUnused

NextLine == ProviderResolve(LineResponses, JudgeResponses, {<<>>})

SpecLine == InitLine /\ [][NextLine]_vars

\* ------------------------------ the page-format step, over all short pages
MaxFmtLines == 2
MaxFmtLineLen == 1
MaxFormatLen == 3

RawLineAtoms == {"a", "."}
FormatAtoms == {"a", "A", ".", "\n", MARK}

\* the chosen line texts: non-empty normalized lines
ChosenLines == {normalizeLineOutput(r) : r \in Strings(RawLineAtoms, MaxFmtLineLen)} \ {<<>>}

FormatResponses == Strings(FormatAtoms, MaxFormatLen)

\* every line of the page has been resolved and the page-format call issued
InitFormat ==
    /\ ExtUnused
    /\ cancelled = FALSE
    /\ maxLineRetries = 0
    /\ maxPageRetries = 0
    /\ \E n \in 1..MaxFmtLines : \E texts \in [1..n -> ChosenLines] :
          page = AfterLines([PageInit EXCEPT
                    !.totalLines = n,
                    !.lineIdx = n,
                    !.lineResults = [k \in 1..n |->
                        [text |-> texts[k], confidence |-> [num |-> 1, den |-> 1],
                         unresolved |-> hasIllegibleToken(texts[k])]]])
    /\ SchedUnused
    /\ HttpUnused
    /\ AuxUnused

NextFormat == ProviderResolve({}, {}, FormatResponses)

SpecFormat == InitFormat /\ [][NextFormat]_vars

\* ------------------------------------- providers/http.ts executeWithRetry
MaxAttempts == 3

\* HTTP status codes of a response
HttpStatuses == {200, 304, 400, 401, 429, 500, 503}

\* isRetryableStatus(status): an absent status is 0
isRetryableStatusAnyError(status) ==
    IF status = 0 THEN TRUE
    ELSE status >= 400

isRetryableStatus(status) ==
    IF status = 0 THEN TRUE
    ELSE status = 429 \/ status >= 500

\* executeWithRetry is entered: attempt = 1
HttpInit(useLimiter) ==
    [pc |-> "loop",             \* loop | turn | request | delay | returned | failed
     useLimiter |-> useLimiter, \* a rateLimiter is given
     attempt |-> 1,             \* attempt
     networkAttempts |-> 0,     \* history: requestUrl calls made
     lastError |-> NoError,     \* lastError
     error |-> NoError]         \* the error thrown

\* the catch block of executeWithRetry for the error fetchJson threw
HttpCatch(st, error, isCancelled) ==
    IF isCancelled
    THEN [st EXCEPT !.pc = "failed", !.lastError = error, !.error = CancelledError]
    ELSE IF error.kind = "provider"
    THEN IF ~isRetryableStatus(error.status) \/ st.attempt = maxAttempts
         THEN [st EXCEPT !.pc = "failed", !.lastError = error, !.error = error]
         ELSE [st EXCEPT !.pc = "delay", !.lastError = error]
    ELSE IF st.attempt = maxAttempts
         THEN [st EXCEPT !.pc = "failed", !.lastError = error, !.error = error]
         ELSE [st EXCEPT !.pc = "loop", !.lastError = error, !.attempt = @ + 1]

\* fetchJson up to the request: a cancelled token throws CancelledError
\* before anything is sent, otherwise requestUrl is called
FetchJsonStartUnchecked(st, isCancelled) ==
    [st EXCEPT !.pc = "request", !.networkAttempts = @ + 1]

FetchJsonStart(st, isCancelled) ==
    IF isCancelled
    THEN HttpCatch(st, CancelledError, isCancelled)
    ELSE [st EXCEPT !.pc = "request", !.networkAttempts = @ + 1]

\* the error fetchJson throws for a response of that status, or for no
\* response (status 0)
FetchJsonError(status, isCancelled) ==
    IF isCancelled THEN CancelledError
    ELSE ProviderError("openai", status, FALSE)

\* top of the for loop: await rateLimiter.waitTurn() when there is a limiter,
\* then fetchJson
HttpLoop ==
    /\ http.pc = "loop"
    /\ http' = IF http.useLimiter THEN [http EXCEPT !.pc = "turn"]
               ELSE FetchJsonStart(http, cancelled)
    /\ UNCHANGED <<cancelled, maxAttempts, schedVars, runVars, pageVars, auxVars, extVars>>

\* rateLimiter.waitTurn() resolves
HttpTurn ==
    /\ http.pc = "turn"
    /\ http' = FetchJsonStart(http, cancelled)
    /\ UNCHANGED <<cancelled, maxAttempts, schedVars, runVars, pageVars, auxVars, extVars>>

\* requestUrl resolves with a response of some status
HttpResponse ==
    /\ http.pc = "request"
    /\ \E status \in HttpStatuses :
          http' = IF ~cancelled /\ status >= 200 /\ status < 300
                  THEN [http EXCEPT !.pc = "returned"]
                  ELSE HttpCatch(http, FetchJsonError(status, cancelled), cancelled)
    /\ UNCHANGED <<cancelled, maxAttempts, schedVars, runVars, pageVars, auxVars, extVars>>

\* the request times out (REQUEST_TIMEOUT_MS) or requestUrl rejects: a
\* ProviderError without status
HttpNoResponse ==
    /\ http.pc = "request"
    /\ http' = HttpCatch(http, FetchJsonError(0, cancelled), cancelled)
    /\ UNCHANGED <<cancelled, maxAttempts, schedVars, runVars, pageVars, auxVars, extVars>>

\* delay(attempt * 400) is over: attempt += 1
HttpDelayDone ==
    /\ http.pc = "delay"
    /\ http' = [http EXCEPT !.pc = "loop", !.attempt = @ + 1]
    /\ UNCHANGED <<cancelled, maxAttempts, schedVars, runVars, pageVars, auxVars, extVars>>

\* token.cancel() while executeWithRetry is suspended
HttpCancel ==
    /\ http.pc \in {"turn", "request", "delay"}
    /\ ~cancelled
    /\ cancelled' = TRUE
    /\ UNCHANGED <<httpVars, schedVars, runVars, pageVars, auxVars, extVars>>

InitHttp ==
    /\ ExtUnused
    /\ cancelled \in BOOLEAN
    /\ maxAttempts \in 1..MaxAttempts
    /\ \E useLimiter \in BOOLEAN : http = HttpInit(useLimiter)
    /\ SchedUnused
    /\ PageUnused
    /\ AuxUnused

NextHttp ==
    \/ HttpLoop
    \/ HttpTurn
    \/ HttpResponse
    \/ HttpNoResponse
    \/ HttpDelayDone
    \/ HttpCancel

SpecHttp == InitHttp /\ [][NextHttp]_vars

\* =================================================== properties of Spec
Tasks == 1..nTasks
Running == {i \in Tasks : taskState[i] = "running"}
Failed == {i \in Tasks : taskState[i] = "rejected"}

\* the rejection of task i has reached the scheduler's catch handler
Handled(i) ==
    /\ taskState[i] = "rejected"
    /\ \A k \in 1..Len(microtasks) :
          ~(microtasks[k].task = i /\ microtasks[k].stage \in {"then", "catch"})

\* error of the first task to fail (NoError while none has failed)
RECURSIVE FirstFailureIn(_)
FirstFailureIn(order) ==
    IF order = <<>> THEN NoError
    ELSE IF taskState[Head(order)] = "rejected" THEN taskOutcome[Head(order)].err
    ELSE FirstFailureIn(Tail(order))

FirstFailure == FirstFailureIn(settleOrder)

\* C1: whenever runWithConcurrency has resolved, the result array has one slot
\* per task and slot i holds the value task i resolved with, whatever the
\* limit and the order in which the tasks settled.
C1_ResultsInTaskOrder ==
    outcome.kind = "resolved" =>
        /\ DOMAIN results = 1..nTasks
        /\ \A i \in Tasks : taskState[i] = "resolved" /\ results[i] = taskOutcome[i].val

\* three tasks settled in an order other than task order, with distinct values
C1_Witness ==
    /\ outcome.kind = "resolved"
    /\ nTasks = 3
    /\ settleOrder # <<1, 2, 3>>
    /\ results[1] # results[2]

\* C2: the note is written at most once, only when every page task has
\* resolved and with the token not cancelled at the write; once a page has
\* failed or the token is cancelled before the write, the note is never written.
C2_WriteOnlyOnFullSuccess ==
    /\ [](noteWrites <= 1)
    /\ [](noteWrites = 1 => \A i \in Tasks : taskState[i] = "resolved")
    /\ [](Failed # {} => noteWrites = 0)
    /\ [][noteWrites' # noteWrites => (~cancelled /\ ~cancelled' /\ outcome.kind = "resolved")]_vars
    /\ [][cancelled /\ noteWrites = 0 => noteWrites' = 0]_vars

\* a run of two or more pages that wrote the note
C2_Witness == noteWrites = 1 /\ nTasks >= 2 /\ runPc = "returned" /\ runResult = "text"

\* C3: the number of tasks launched and not yet settled never exceeds limit,
\* and tasks are launched only while that number is below limit and an
\* unlaunched task remains.
C3_InFlightBounded ==
    /\ [](Cardinality(Running) <= limit /\ Cardinality(Running) <= inFlight /\ inFlight <= limit)
    /\ [][index' > index =>
            /\ Cardinality(Running) < limit
            /\ index < nTasks
            /\ index' <= nTasks
            /\ Cardinality(Running) + (index' - index) <= limit]_vars

\* limit tasks are running, one was launched after an earlier one settled,
\* and another still waits
C3_Witness ==
    /\ Cardinality(Running) = limit
    /\ index > limit
    /\ index < nTasks

\* C4 as stated: once a task's rejection has been handled, the token is
\* cancelled and the operation is rejected with the error of the first task
\* to fail.
C4_Original ==
    \A i \in Tasks :
        Handled(i) => (cancelled /\ outcome = Rejected(FirstFailure))

\* C4 amended: a task rejection handled while the operation is still pending
\* cancels the token and rejects the operation with that error, the error of
\* the first task to fail; if the operation was already rejected (launchNext
\* saw the token cancelled) that rejection stands.  A rejected operation never
\* changes its outcome and never resolves.
C4_FirstRejectionWins ==
    /\ [][\A i \in Tasks :
            (Handled(i)' /\ ~Handled(i)) =>
                /\ cancelled'
                /\ outcome'.kind = "rejected"
                /\ IF outcome.kind = "pending"
                   THEN outcome' = Rejected(taskOutcome[i].err) /\ taskOutcome[i].err = FirstFailure
                   ELSE outcome' = outcome /\ outcome.err \in {CancelledError, FirstFailure}]_vars
    /\ [][outcome.kind = "rejected" => outcome' = outcome]_vars
    /\ [](Failed # {} => outcome.kind # "resolved")

\* two tasks have failed with different errors and both rejections were handled
C4_Witness ==
    \E i, j \in Tasks :
        /\ i # j
        /\ Handled(i) /\ Handled(j)
        /\ taskOutcome[i].err # taskOutcome[j].err
        /\ outcome = Rejected(FirstFailure)

\* C5: called with an already cancelled token, runWithConcurrency rejects with
\* the cancellation error and invokes no task, then or later.
C5_PreCancelledRejects ==
    /\ [][(runPc = "start" /\ cancelled) =>
            /\ outcome' = Rejected(CancelledError)
            /\ index' = 0
            /\ \A i \in Tasks : taskState'[i] = "unlaunched"]_vars
    /\ [][rejected =>
            /\ index' = index
            /\ \A i \in Tasks : taskState[i] = "unlaunched" => taskState'[i] = "unlaunched"]_vars

\* the call was made with a cancelled token and three tasks
C5_Witness ==
    /\ runPc # "start"
    /\ index = 0
    /\ nTasks = 3
    /\ outcome = Rejected(CancelledError)

\* ============================================= properties of SpecFormat
\* C6 as stated: the reformatted text is returned if and only if the word
\* sequence of the format call's output equals that of the raw concatenation;
\* otherwise the raw concatenation is returned; the returned word sequence
\* equals the raw one.
C6_Original ==
    page.pc = "returned" =>
        /\ (page.result = page.formatted)
              <=> (tokenizeWords(page.formatted) = tokenizeWords(page.rawPage))
        /\ page.result \in {page.formatted, page.rawPage}
        /\ tokenizeWords(page.result) = tokenizeWords(page.rawPage)

\* C6 amended: the normalized reformatted text is returned if and only if it
\* is non-empty and its word sequence equals that of the raw concatenation;
\* in every other case (an empty response included) the raw concatenation is
\* returned verbatim; the returned word sequence always equals the raw one.
C6_FormatAcceptedOnSameWords ==
    page.pc = "returned" =>
        /\ IF page.formatted # <<>>
              /\ tokenizeWords(page.formatted) = tokenizeWords(page.rawPage)
           THEN page.result = page.formatted
           ELSE page.result = page.rawPage
        /\ tokenizeWords(page.result) = tokenizeWords(page.rawPage)

\* a reformatted text that differs from the raw page was accepted
C6_Witness ==
    /\ page.pc = "returned"
    /\ page.result = page.formatted
    /\ page.formatted # page.rawPage
    /\ tokenizeWords(page.rawPage) # <<>>

\* =============================================== properties of SpecPage
\* every call started after the first follows a settled call; within a slice
\* prompt B starts after prompt A resolved and judgeLine after prompt B resolved
SequentialLog(log) ==
    \A i \in 1..Len(log) :
        log[i].ev = "start" =>
            /\ i > 1 => log[i - 1].ev \in {"resolve", "reject"}
            /\ log[i].kind = "B" => \E j \in 1..(i - 1) : log[j] = Event("resolve", "A")
            /\ log[i].kind = "J" => \E j \in 1..(i - 1) : log[j] = Event("resolve", "B")

BelowConsensus(a, b) == ~FracGE(lineSimilarity(a, b), [num |-> 96, den |-> 100])

\* C7: at most one provider call is outstanding and it belongs to the current
\* slice; within a slice prompt A settles before prompt B starts; judgeLine is
\* called for a slice exactly when the similarity of its two candidates is
\* below 0.96; slices are taken one after the other, the next one only when
\* the previous one is finished.
C7_SequentialInSliceOrder ==
    /\ [](/\ Cardinality(page.outstanding) <= 1
          /\ \A c \in page.outstanding : c.slice = page.lineIdx
          /\ SequentialLog(page.sliceLog)
          /\ (\E i \in 1..Len(page.sliceLog) : page.sliceLog[i] = Event("start", "J"))
                => BelowConsensus(page.candidateA, page.candidateB)
          /\ page.lastLine.slice # 0
                => (page.lastLine.arbiter.used
                      <=> BelowConsensus(page.lastLine.candidateA, page.lastLine.candidateB)))
    /\ [][page'.lineIdx # page.lineIdx =>
            \/ page.pc = "pageBackoff" /\ page'.lineIdx = 0
            \/ /\ page'.lineIdx = page.lineIdx + 1
               /\ page.lineIdx >= 1 => page'.lastLine.slice = page.lineIdx
               /\ \A c \in page'.outstanding : c.slice = page'.lineIdx]_vars

\* the second slice is at its judgeLine call after a first slice that reached
\* consensus without one
C7_Witness ==
    /\ page.pc = "call"
    /\ page.callKind = "J"
    /\ page.lineIdx = 2
    /\ page.lastLine.slice = 1
    /\ ~page.lastLine.arbiter.used

\* C10: a failed page attempt is followed by another one exactly when the
\* error is classified recoverable, fewer than maxPageRetries retries have
\* been made and the token is not cancelled; otherwise the error is thrown at
\* once.  A retry starts the pipeline afresh, and a page is attempted at most
\* maxPageRetries + 1 times.
C10_PageRetry ==
    /\ [](page.attempt <= maxPageRetries)
    /\ [][page'.pc = "pageBackoff" /\ page.pc # "pageBackoff" =>
            /\ isRecoverableError(page'.error)
            /\ page.attempt < maxPageRetries
            /\ ~cancelled
            /\ page'.attempt = page.attempt]_vars
    /\ [][page'.pc = "failed" /\ page.pc # "failed" =>
            /\ ~(isRecoverableError(page'.error)
                   /\ page.attempt < maxPageRetries
                   /\ ~cancelled)
            /\ page'.attempt = page.attempt]_vars
    /\ [][page'.attempt # page.attempt =>
            /\ page.pc = "pageBackoff"
            /\ page' = [PageInit EXCEPT !.attempt = page.attempt + 1,
                                        !.error = page.error]]_vars

\* a page failed with a recoverable error after its last permitted retry
C10_Witness ==
    /\ page.pc = "failed"
    /\ maxPageRetries >= 1
    /\ page.attempt = maxPageRetries
    /\ isRecoverableError(page.error)
    /\ ~cancelled

\* =============================================== properties of SpecLine
\* C8: the text chosen for a line is better(A, B) when the similarity of the
\* candidates is at least 0.96; otherwise the normalized arbiter output when
\* it is non-empty, else better(A, B); better takes the candidate with fewer
\* illegibility markers, then the longer one, then candidate A.
C8_ChosenText ==
    page.lastLine.slice = 1 =>
        LET a == page.lastLine.candidateA
            b == page.lastLine.candidateB
            judged == page.lastLine.arbiter.text
            better == IF countIllegible(a) < countIllegible(b) THEN a
                      ELSE IF countIllegible(b) < countIllegible(a) THEN b
                      ELSE IF StrLen(a) > StrLen(b) THEN a
                      ELSE IF StrLen(b) > StrLen(a) THEN b
                      ELSE a
        IN page.lastLine.chosen =
              IF ~BelowConsensus(a, b) THEN better
              ELSE IF judged # <<>> THEN judged
              ELSE better

\* the arbiter answered nothing and candidate B, with fewer markers, was chosen
C8_Witness ==
    /\ page.lastLine.slice = 1
    /\ page.lastLine.arbiter.used
    /\ page.lastLine.arbiter.text = <<>>
    /\ page.lastLine.chosen = page.lastLine.candidateB
    /\ countIllegible(page.lastLine.candidateB) < countIllegible(page.lastLine.candidateA)

\* =============================================== properties of SpecHttp
\* a provider error with status 429, status >= 500 or no status
RetryableFailure(e) ==
    e.kind = "provider" /\ (e.status = 0 \/ e.status = 429 \/ e.status >= 500)

\* C9: executeWithRetry makes at most maxAttempts requests; a request after
\* the first is made only when the last failure is a provider error with
\* status 429, status >= 500 or no status and attempts remain; a provider
\* error with any other status is thrown at once.
C9_BoundedRetry ==
    /\ [](http.networkAttempts <= maxAttempts)
    /\ [][http'.networkAttempts # http.networkAttempts =>
            /\ http'.networkAttempts = http.networkAttempts + 1
            /\ http.networkAttempts >= 1 =>
                  /\ RetryableFailure(http.lastError)
                  /\ http.networkAttempts < maxAttempts]_vars
    /\ [](http.lastError.kind = "provider" /\ ~RetryableFailure(http.lastError) =>
            /\ http.pc = "failed"
            /\ http.error = http.lastError)
    /\ [][http'.pc = "failed" /\ http.pc # "failed" /\ http'.error.kind = "provider"
            /\ ~RetryableFailure(http'.error) /\ http.lastError = NoError =>
            http'.networkAttempts = 1]_vars

\* every permitted attempt failed with a retryable provider error
C9_Witness ==
    /\ http.pc = "failed"
    /\ maxAttempts = 3
    /\ http.networkAttempts = 3
    /\ RetryableFailure(http.error)
    /\ ~cancelled

\* =========================================== properties of withRetry
\* number of times the call of kind k was invoked for the current slice
RECURSIVE Invocations(_, _)
Invocations(log, k) ==
    IF log = <<>> THEN 0
    ELSE (IF Head(log) = Event("start", k) THEN 1 ELSE 0) + Invocations(Tail(log), k)

\* the last thing that happened in the current slice is a rejected call
CallJustRejected(st) ==
    st.sliceLog # <<>> /\ st.sliceLog[Len(st.sliceLog)].ev = "reject"

\* C11: withRetry invokes a line-level provider call at most
\* maxLineRetries + 1 times, invokes it again only after a failure classified
\* recoverable, and rethrows a non-recoverable failure at once.
C11_LineRetry ==
    /\ [](page.lineAttempt <= maxLineRetries)
    /\ [](\A k \in {"A", "B", "J", "F"} :
            Invocations(page.sliceLog, k) <= maxLineRetries + 1)
    /\ [][page'.pc = "lineBackoff" /\ page.pc # "lineBackoff" =>
            /\ isRecoverableError(page'.lineError)
            /\ page.lineAttempt < maxLineRetries
            /\ page'.callKind = page.callKind]_vars
    /\ [][page.pc = "lineBackoff" /\ page'.pc # "lineBackoff" =>
            /\ page'.pc = "call"
            /\ page'.callKind = page.callKind
            /\ page'.lineAttempt = page.lineAttempt + 1]_vars
    /\ [][page.pc = "call" /\ CallJustRejected(page')
            /\ page'.pc \in {"failed", "pageBackoff"} =>
            ~isRecoverableError(page'.error) \/ page.lineAttempt >= maxLineRetries]_vars

\* a call was retried after a recoverable failure and failed again, which
\* was rethrown
C11_Witness ==
    /\ page.pc = "failed"
    /\ CallJustRejected(page)
    /\ maxLineRetries >= 1
    /\ page.lineAttempt = maxLineRetries
    /\ Invocations(page.sliceLog, page.sliceLog[Len(page.sliceLog)].kind) = maxLineRetries + 1
    /\ isRecoverableError(page.error)

\* C12 as stated, for the line-level and page-level loops: once the token is
\* cancelled no backoff is begun and no call is invoked out of a backoff.
C12_Original ==
    [][cancelled =>
          /\ page'.pc \in {"lineBackoff", "pageBackoff"} => page'.pc = page.pc
          /\ page.pc \in {"lineBackoff", "pageBackoff"} => page'.pc \notin {"call", "segmenting"}]_vars

\* ============================ providers/http.ts fetchWithRetry, the cache
MaxCalls == 4
MaxTime == 1

\* request keys (buildRequestKey results) and response bodies as JSON text
FetchKeys == {"k1", "k2", "k3"}
FetchValues == {<<"x">>, <<"x", "x", "x">>}

\* the options of the provider instance: useCache, cacheTtlMs,
\* cacheMaxEntries, cacheMaxBytes
FetchOptions ==
    {[useCache |-> TRUE, cacheTtlMs |-> 1, cacheMaxEntries |-> 2, cacheMaxBytes |-> 8],
     [useCache |-> TRUE, cacheTtlMs |-> 1, cacheMaxEntries |-> 2, cacheMaxBytes |-> 4],
     [useCache |-> TRUE, cacheTtlMs |-> 0, cacheMaxEntries |-> 2, cacheMaxBytes |-> 8],
     [useCache |-> FALSE, cacheTtlMs |-> 1, cacheMaxEntries |-> 2, cacheMaxBytes |-> 8]}

\* a JavaScript object: its identity and its content
Obj(ref, content) == [ref |-> ref, content |-> content]
Undefined == Obj(0, <<>>)

NoOp == [op |-> "none", key |-> "", evicted |-> <<>>, returned |-> <<>>]

\* the module state of http.ts before any request, and no caller yet
FetchInit(options) ==
    [pc |-> "run",
     options |-> options,
     now |-> 0,                 \* Date.now()
     responseCache |-> <<>>,    \* responseCache, in Map (insertion) order
     cacheBytesInUse |-> 0,     \* cacheBytesInUse
     inFlightRequests |-> {},   \* inFlightRequests: pairs [key, task]
     tasks |-> {},              \* executeWithRetry calls that have not settled
     waiting |-> <<>>,          \* the callers awaiting a task, in call order
     nCalls |-> 0,              \* history: fetchWithRetry calls made
     nextRef |-> 1,             \* allocator of object identities
     opCount |-> 0,             \* history: cache writes and hits so far
     written |-> [k \in FetchKeys |-> [content |-> <<>>, expiresAt |-> 0]],
                                \* history: the last response written per key
     last |-> NoOp]             \* history: the last operation

\* approximateSize(value): JSON.stringify(value).length * 2
approximateSize(value) == Len(value.content) * 2

\* cloneResponse(value): a new object with the same content
cloneResponse(value, ref) == Obj(ref, value.content)

\* position of key in the Map, 0 when it is absent
RECURSIVE MapIndex(_, _, _)
MapIndex(map, key, i) ==
    IF i > Len(map) THEN 0
    ELSE IF map[i].key = key THEN i
    ELSE MapIndex(map, key, i + 1)

\* Map.prototype.delete of the entry at position i
MapDelete(map, i) == [j \in 1..(Len(map) - 1) |-> IF j < i THEN map[j] ELSE map[j + 1]]

\* responseCache.delete(key); responseCache.set(key, entry): the entry moves
\* to the end of the Map order
ReinsertInPlace(map, i, entry) == [map EXCEPT ![i] = entry]

Reinsert(map, i, entry) == Append(MapDelete(map, i), entry)

\* entry.expiresAt <= Date.now()
IsExpiredAfter(entry, now) == entry.expiresAt < now

IsExpired(entry, now) == entry.expiresAt <= now

\* readCache(key): gives the state after it and the value returned
readCache(st, key) ==
    LET i == MapIndex(st.responseCache, key, 1)
    IN IF i = 0 THEN [st |-> st, value |-> Undefined]
       ELSE LET entry == st.responseCache[i]
            IN IF IsExpired(entry, st.now)
               THEN [st |-> [st EXCEPT !.responseCache = MapDelete(@, i),
                                       !.cacheBytesInUse = @ - entry.approxBytes],
                     value |-> Undefined]
               ELSE [st |-> [st EXCEPT
                               !.responseCache =
                                   Reinsert(@, i, [entry EXCEPT !.touched = st.opCount + 1]),
                               !.opCount = @ + 1,
                               !.nextRef = @ + 1],
                     value |-> cloneResponse(entry.value, st.nextRef)]

\* the condition of the eviction loop of writeCache
EvictCondCountOnly(size, bytes, maxEntries, maxBytes) == size > maxEntries

EvictCond(size, bytes, maxEntries, maxBytes) == size > maxEntries \/ bytes > maxBytes

\* the eviction loop of writeCache: c = [map, bytes, evicted]
RECURSIVE EvictLoop(_, _, _)
EvictLoop(c, maxEntries, maxBytes) ==
    IF EvictCond(Len(c.map), c.bytes, maxEntries, maxBytes) /\ c.map # <<>>
    THEN EvictLoop([map |-> Tail(c.map),
                    bytes |-> c.bytes - Head(c.map).approxBytes,
                    evicted |-> Append(c.evicted, Head(c.map))],
                   maxEntries, maxBytes)
    ELSE c

\* writeCache(key, value, ttlMs, maxEntries, maxBytes)
writeCache(st, key, value, ttlMs, maxEntries, maxBytes) ==
    LET cloned == cloneResponse(value, st.nextRef)
        approxBytes == approximateSize(cloned)
        i == MapIndex(st.responseCache, key, 1)
        map1 == IF i # 0 THEN MapDelete(st.responseCache, i) ELSE st.responseCache
        bytes1 == IF i # 0 THEN st.cacheBytesInUse - st.responseCache[i].approxBytes
                  ELSE st.cacheBytesInUse
        entry == [key |-> key, value |-> cloned, expiresAt |-> st.now + ttlMs,
                  approxBytes |-> approxBytes,
                  written |-> st.opCount + 1, touched |-> st.opCount + 1]
        c == EvictLoop([map |-> Append(map1, entry), bytes |-> bytes1 + approxBytes,
                        evicted |-> <<>>, returned |-> <<>>], maxEntries, maxBytes)
    IN [st EXCEPT !.responseCache = c.map,
                  !.cacheBytesInUse = c.bytes,
                  !.nextRef = @ + 1,
                  !.opCount = @ + 1,
                  !.written[key] = [content |-> value.content, expiresAt |-> st.now + ttlMs],
                  !.last = [op |-> "write", key |-> key, evicted |-> c.evicted, returned |-> <<>>]]

\* inFlightRequests.get(requestKey): the task stored for the key, 0 when none
InFlightTaskIgnored(st, key) == 0

InFlightTask(st, key) ==
    IF \E p \in st.inFlightRequests : p.key = key
    THEN (CHOOSE p \in st.inFlightRequests : p.key = key).task
    ELSE 0

\* a caller awaiting the promise fetchWithRetry returned
Waiter(key, task) == [key |-> key, task |-> task]

\* fetchWithRetry(url, init, token, provider, options) up to its return: a
\* cache hit returns a copy, a request in flight is attached to, otherwise
\* executeWithRetry is started and stored
fetchWithRetrySync(st0, key) ==
    LET r == IF st0.options.useCache THEN readCache(st0, key)
             ELSE [st |-> st0, value |-> Undefined]
        st == r.st
        existing == InFlightTask(st, key)
        id == st.nCalls + 1
    IN IF r.value # Undefined
       THEN [st EXCEPT !.nCalls = id,
                       !.last = [op |-> "hit", key |-> key, evicted |-> <<>>,
                                 returned |-> <<r.value>>]]
       ELSE IF existing # 0
       THEN [st EXCEPT !.nCalls = id,
                       !.waiting = Append(@, Waiter(key, existing)),
                       !.last = [op |-> "attach", key |-> key, evicted |-> <<>>, returned |-> <<>>]]
       ELSE [st EXCEPT !.nCalls = id,
                       !.waiting = Append(@, Waiter(key, id)),
                       !.tasks = @ \cup {[id |-> id, key |-> key]},
                       !.inFlightRequests =
                           {p \in @ : p.key # key} \cup {[key |-> key, task |-> id]},
                       !.last = [op |-> "start", key |-> key, evicted |-> <<>>, returned |-> <<>>]]

\* the callers waiting for task id receive cloneResponse(value) each, in
\* the order in which they called
RECURSIVE Deliver(_, _, _)
Deliver(st, id, value) ==
    LET i == CHOOSE j \in 1..Len(st.waiting) :
                 /\ st.waiting[j].task = id
                 /\ \A h \in 1..(j - 1) : st.waiting[h].task # id
    IN IF \A j \in 1..Len(st.waiting) : st.waiting[j].task # id THEN st
       ELSE Deliver([st EXCEPT !.waiting = MapDelete(@, i),
                               !.last.returned = Append(@, cloneResponse(value, st.nextRef)),
                               !.nextRef = @ + 1],
                    id, value)

\* the .then and .finally handlers of fetchWithRetry for a resolved task:
\* write the cache when caching is on and the TTL positive, forget the
\* in-flight request
OnTaskResolvedAlwaysWrites(st, t, value) ==
    LET o == st.options
        st1 == writeCache(st, t.key, value, o.cacheTtlMs, o.cacheMaxEntries,
                          o.cacheMaxBytes)
    IN [st1 EXCEPT !.inFlightRequests = {p \in @ : p.key # t.key},
                   !.tasks = @ \ {t}]

OnTaskResolvedKeepsEntry(st, t, value) ==
    LET o == st.options
        st1 == IF o.useCache /\ o.cacheTtlMs > 0
               THEN writeCache(st, t.key, value, o.cacheTtlMs, o.cacheMaxEntries,
                               o.cacheMaxBytes)
               ELSE [st EXCEPT !.last = [op |-> "settle", key |-> t.key, evicted |-> <<>>, returned |-> <<>>]]
    IN [st1 EXCEPT !.tasks = @ \ {t}]

OnTaskResolved(st, t, value) ==
    LET o == st.options
        st1 == IF o.useCache /\ o.cacheTtlMs > 0
               THEN writeCache(st, t.key, value, o.cacheTtlMs, o.cacheMaxEntries,
                               o.cacheMaxBytes)
               ELSE [st EXCEPT !.last = [op |-> "settle", key |-> t.key, evicted |-> <<>>, returned |-> <<>>]]
    IN [st1 EXCEPT !.inFlightRequests = {p \in @ : p.key # t.key},
                   !.tasks = @ \ {t}]

\* a caller calls fetchWithRetry with some key
FetchCall ==
    /\ fetch.pc = "run"
    /\ fetch.nCalls < MaxCalls
    /\ \E key \in FetchKeys : fetch' = fetchWithRetrySync(fetch, key)
    /\ UNCHANGED <<cancelled, schedVars, runVars, pageVars, httpVars, limiter, token, req, extVars>>

\* executeWithRetry resolves with a response
FetchTaskResolve ==
    /\ fetch.pc = "run"
    /\ \E t \in fetch.tasks : \E content \in FetchValues :
          LET value == Obj(fetch.nextRef, content)
              st == OnTaskResolved([fetch EXCEPT !.nextRef = @ + 1], t, value)
          IN fetch' = Deliver(st, t.id, value)
    /\ UNCHANGED <<cancelled, schedVars, runVars, pageVars, httpVars, limiter, token, req, extVars>>

\* executeWithRetry rejects: the .finally handler forgets the in-flight
\* request and every caller attached to it is rejected
FetchTaskReject ==
    /\ fetch.pc = "run"
    /\ \E t \in fetch.tasks :
          fetch' = [fetch EXCEPT
                      !.inFlightRequests = {p \in @ : p.key # t.key},
                      !.tasks = @ \ {t},
                      !.waiting = SelectSeq(@, LAMBDA w : w.task # t.id),
                      !.last = [op |-> "settle", key |-> t.key, evicted |-> <<>>, returned |-> <<>>]]
    /\ UNCHANGED <<cancelled, schedVars, runVars, pageVars, httpVars, limiter, token, req, extVars>>

\* clearResponseCache()
ClearResponseCache ==
    /\ fetch.pc = "run"
    /\ fetch.responseCache # <<>>
    /\ fetch' = [fetch EXCEPT !.responseCache = <<>>,
                              !.cacheBytesInUse = 0,
                              !.last = [op |-> "clear", key |-> "", evicted |-> <<>>, returned |-> <<>>]]
    /\ UNCHANGED <<cancelled, schedVars, runVars, pageVars, httpVars, limiter, token, req, extVars>>

\* time passes
FetchTick ==
    /\ fetch.pc = "run"
    /\ fetch.now < MaxTime
    /\ fetch' = [fetch EXCEPT !.now = @ + 1,
                              !.last = [op |-> "tick", key |-> "", evicted |-> <<>>, returned |-> <<>>]]
    /\ UNCHANGED <<cancelled, schedVars, runVars, pageVars, httpVars, limiter, token, req, extVars>>

InitFetch ==
    /\ ExtUnused
    /\ cancelled = FALSE
    /\ \E options \in FetchOptions : fetch = FetchInit(options)
    /\ limiter = [pc |-> "unused"]
    /\ token = [pc |-> "unused"]
    /\ req = [pc |-> "unused"]
    /\ SchedUnused
    /\ PageUnused
    /\ HttpUnused

NextFetch ==
    \/ FetchCall
    \/ FetchTaskResolve
    \/ FetchTaskReject
    \/ ClearResponseCache
    \/ FetchTick

SpecFetch == InitFetch /\ [][NextFetch]_vars

\* =============================================== properties of SpecFetch
\* the executeWithRetry calls running for a key
TasksFor(st, key) == {t \in st.tasks : t.key = key}

\* a fetchWithRetry call was made in this step
CallMade == fetch'.nCalls = fetch.nCalls + 1

RECURSIVE SumBytes(_)
SumBytes(map) == IF map = <<>> THEN 0 ELSE Head(map).approxBytes + SumBytes(Tail(map))

\* C13: for every key at most one executeWithRetry runs at a time; a call
\* made while a request with its key is in flight starts none and waits for
\* that one, with or without response caching.
C13_OneRequestInFlight ==
    /\ [](\A key \in FetchKeys : Cardinality(TasksFor(fetch, key)) <= 1)
    /\ [][CallMade /\ TasksFor(fetch, fetch'.last.key) # {} =>
            /\ fetch'.tasks = fetch.tasks
            /\ fetch'.last.op = "attach"
            /\ \E t \in TasksFor(fetch, fetch'.last.key) :
                  fetch'.waiting = Append(fetch.waiting, Waiter(t.key, t.id))]_vars

\* with caching disabled three callers of one key wait for the same request
C13_Witness ==
    /\ ~fetch.options.useCache
    /\ Len(fetch.waiting) = 3
    /\ \A i \in 1..3 : fetch.waiting[i] = fetch.waiting[1]
    /\ Cardinality(fetch.tasks) = 1

\* C14: the cache never holds more than cacheMaxEntries entries nor entries
\* whose approximate sizes sum to more than cacheMaxBytes, after every write
\* and after any reads, expiries and clears; cacheBytesInUse is that sum.
C14_CacheWithinCaps ==
    /\ Len(fetch.responseCache) <= fetch.options.cacheMaxEntries
    /\ SumBytes(fetch.responseCache) <= fetch.options.cacheMaxBytes
    /\ fetch.cacheBytesInUse = SumBytes(fetch.responseCache)

\* a write evicted an entry because of the byte cap alone
C14_Witness ==
    /\ fetch.last.op = "write"
    /\ fetch.last.evicted # <<>>
    /\ Len(fetch.responseCache) = 1
    /\ fetch.options.cacheMaxEntries = 2
    /\ fetch.responseCache[1].key = fetch.last.key

CallFinds(i) ==
    /\ CallMade
    /\ fetch.options.useCache
    /\ i \in 1..Len(fetch.responseCache)
    /\ fetch.responseCache[i].key = fetch'.last.key

\* the call returned at once a new object with that content
ReturnsCopyOf(content) ==
    /\ fetch'.last.op = "hit"
    /\ Len(fetch'.last.returned) = 1
    /\ fetch'.last.returned[1].content = content
    /\ fetch'.last.returned[1].ref >= fetch.nextRef

\* C16 as stated: a request made before the expiry of the last response
\* written for its key is answered from the cache with a copy of it.
C16_Original ==
    [][CallMade /\ fetch.options.useCache
         /\ fetch.now < fetch.written[fetch'.last.key].expiresAt =>
         ReturnsCopyOf(fetch.written[fetch'.last.key].content)]_vars

\* C16 amended: a request whose key has an entry in the cache (written and
\* not evicted or cleared since) is answered with a copy of the stored value
\* when made before the entry's expiry, and at or after expiry misses, removes
\* the entry and starts a network request.  Every object handed to a caller,
\* from the cache or from a settled request, is a new object.
C16_CacheRoundTrip ==
    /\ [][\A i \in 1..Len(fetch.responseCache) :
            CallFinds(i) =>
               LET entry == fetch.responseCache[i]
               IN IF fetch.now < entry.expiresAt
                  THEN /\ ReturnsCopyOf(entry.value.content)
                       /\ MapIndex(fetch'.responseCache, entry.key, 1) # 0
                  ELSE /\ fetch'.last.op = "start"
                       /\ MapIndex(fetch'.responseCache, entry.key, 1) = 0
                       /\ TasksFor(fetch', entry.key) # {}]_vars
    /\ [][\A i \in 1..Len(fetch'.last.returned) :
            /\ fetch'.last.returned = fetch.last.returned \/ fetch'.last.returned[i].ref >= fetch.nextRef
            /\ \A j \in 1..Len(fetch'.last.returned) :
                  i # j => fetch'.last.returned[i].ref # fetch'.last.returned[j].ref
            /\ \A j \in 1..Len(fetch'.responseCache) :
                  fetch'.responseCache[j].value.ref # fetch'.last.returned[i].ref]_vars

\* a response was written and returned to two later callers before its expiry
C16_Witness ==
    /\ fetch.last.op = "hit"
    /\ fetch.opCount >= 3
    /\ \E i \in 1..Len(fetch.responseCache) :
          /\ fetch.responseCache[i].key = fetch.last.key
          /\ fetch.last.returned[1].content = fetch.responseCache[i].value.content
          /\ fetch.last.returned[1].ref > fetch.responseCache[i].value.ref + 1

\* ============================================ providers/rate-limiter.ts
MaxWaiters == 3

\* the upper end of the range of maxRequestsPerSecond
MaxRequestsPerSecond == 20

\* the milliseconds of a second; a longer time since lastRun is kept as this
MsPerSecond == 1000

\* how late after its delay a timer can fire, and how long the limiter can
\* stay unused, in ms
TimerLateness == {0, 1}
IdleTimes == {1, 100, 1000}

\* constructor: Math.max(1, Math.floor(1000 / Math.max(1, requestsPerSecond)))
minIntervalMs(requestsPerSecond) ==
    Max(1, MsPerSecond \div Max(1, requestsPerSecond))

\* new RateLimiter(requestsPerSecond): lastRun = 0 lies far in the past
LimiterInit(requestsPerSecond) ==
    [pc |-> "idle",             \* idle | delaying (the body of a turn awaits delay)
     requestsPerSecond |-> requestsPerSecond,
     minIntervalMs |-> minIntervalMs(requestsPerSecond),
     sinceLastRun |-> MsPerSecond, \* Date.now() - lastRun, at most MsPerSecond
     queued |-> 0,              \* waitTurn bodies chained on queue, not yet run
     waitMs |-> 0,              \* the delay being awaited
     granted |-> 0,             \* history: turns granted
     grantGap |-> -1]           \* history: ms between the turn granted in the
                                \* last step and the one before, -1 if none

\* this.lastRun = Date.now() after `passed` more ms: the turn is granted
GrantTurn(st, passed) ==
    [st EXCEPT !.pc = "idle",
               !.sinceLastRun = 0,
               !.queued = @ - 1,
               !.waitMs = 0,
               !.granted = @ + 1,
               !.grantGap = Min(MsPerSecond, st.sinceLastRun + passed)]

\* waitTurn(): one more body is chained on the queue (MaxWaiters calls in all)
WaitTurn ==
    /\ limiter.pc \in {"idle", "delaying"}
    /\ limiter.granted + limiter.queued < MaxWaiters
    /\ limiter' = [limiter EXCEPT !.queued = @ + 1, !.grantGap = -1]
    /\ UNCHANGED <<cancelled, schedVars, runVars, pageVars, httpVars, fetch, token, req, extVars>>

\* the next body on the queue runs: it waits minIntervalMs - elapsed when
\* that is positive, else takes its turn at once
TurnBody ==
    /\ limiter.pc = "idle"
    /\ limiter.queued > 0
    /\ LET elapsed == limiter.sinceLastRun
           waitMs == Max(0, limiter.minIntervalMs - elapsed)
       IN limiter' = IF waitMs > 0
                     THEN [limiter EXCEPT !.pc = "delaying", !.waitMs = waitMs,
                                          !.grantGap = -1]
                     ELSE GrantTurn(limiter, 0)
    /\ UNCHANGED <<cancelled, schedVars, runVars, pageVars, httpVars, fetch, token, req, extVars>>

\* the timer of delay(waitMs) fires, not before waitMs has passed
DelayOver ==
    /\ limiter.pc = "delaying"
    /\ \E late \in TimerLateness : limiter' = GrantTurn(limiter, limiter.waitMs + late)
    /\ UNCHANGED <<cancelled, schedVars, runVars, pageVars, httpVars, fetch, token, req, extVars>>

\* time passes while no body runs
LimiterIdle ==
    /\ limiter.pc = "idle"
    /\ limiter.sinceLastRun < MsPerSecond
    /\ \E d \in IdleTimes :
          limiter' = [limiter EXCEPT !.sinceLastRun = Min(MsPerSecond, @ + d),
                                     !.grantGap = -1]
    /\ UNCHANGED <<cancelled, schedVars, runVars, pageVars, httpVars, fetch, token, req, extVars>>

InitLimiter ==
    /\ ExtUnused
    /\ cancelled = FALSE
    /\ \E r \in 1..MaxRequestsPerSecond : limiter = LimiterInit(r)
    /\ fetch = [pc |-> "unused"]
    /\ token = [pc |-> "unused"]
    /\ req = [pc |-> "unused"]
    /\ SchedUnused
    /\ PageUnused
    /\ HttpUnused

NextLimiter ==
    \/ WaitTurn
    \/ TurnBody
    \/ DelayOver
    \/ LimiterIdle

SpecLimiter == InitLimiter /\ [][NextLimiter]_vars

\* ============================================= properties of SpecLimiter
\* C17 as stated: any two consecutive turns are at least 1000 / R ms apart,
\* for every R in 1..20.
C17_Original ==
    limiter.grantGap # -1 =>
        limiter.grantGap * limiter.requestsPerSecond >= MsPerSecond

\* ================================================= core/cancellation.ts
MaxControllers == 3

Controllers == 1..MaxControllers

\* new CancellationToken(): no controller registered
TokenInit ==
    [pc |-> "run",
     controllers |-> {},        \* controllers
     aborted |-> {},            \* the controllers whose abort() was called
     live |-> {},               \* history: registered and not unregistered since
     abortedByRegister |-> {}]  \* history: aborted by register()

\* cancel()
cancel(st) ==
    [st EXCEPT !.aborted = @ \cup st.controllers,
               !.controllers = {}]

\* register(controller)
registerWithoutAbort(st, controller, isCancelled) ==
    IF isCancelled
    THEN [st EXCEPT !.live = @ \cup {controller}]
    ELSE [st EXCEPT !.controllers = @ \cup {controller},
                    !.live = @ \cup {controller}]

register(st, controller, isCancelled) ==
    IF isCancelled
    THEN [st EXCEPT !.aborted = @ \cup {controller},
                    !.abortedByRegister = @ \cup {controller},
                    !.live = @ \cup {controller}]
    ELSE [st EXCEPT !.controllers = @ \cup {controller},
                    !.live = @ \cup {controller}]

\* unregister(controller)
unregister(st, controller) ==
    [st EXCEPT !.controllers = @ \ {controller},
               !.live = @ \ {controller}]

TokenCancel ==
    /\ token.pc = "run"
    /\ cancelled' = TRUE
    /\ token' = cancel(token)
    /\ UNCHANGED <<schedVars, runVars, pageVars, httpVars, fetch, limiter, req, extVars>>

TokenRegister ==
    /\ token.pc = "run"
    /\ \E c \in Controllers : token' = register(token, c, cancelled)
    /\ UNCHANGED <<cancelled, schedVars, runVars, pageVars, httpVars, fetch, limiter, req, extVars>>

TokenUnregister ==
    /\ token.pc = "run"
    /\ \E c \in Controllers : token' = unregister(token, c)
    /\ UNCHANGED <<cancelled, schedVars, runVars, pageVars, httpVars, fetch, limiter, req, extVars>>

InitToken ==
    /\ ExtUnused
    /\ cancelled = FALSE
    /\ token = TokenInit
    /\ fetch = [pc |-> "unused"]
    /\ limiter = [pc |-> "unused"]
    /\ req = [pc |-> "unused"]
    /\ SchedUnused
    /\ PageUnused
    /\ HttpUnused

NextToken ==
    \/ TokenCancel
    \/ TokenRegister
    \/ TokenUnregister

SpecToken == InitToken /\ [][NextToken]_vars

\* =============================================== properties of SpecToken
\* C18: cancelled never goes back to false, and once the token is cancelled
\* every controller registered and not unregistered has been aborted,
\* whether it was registered before or after cancel().
C18_MonotonicAndAborting ==
    /\ [][cancelled => cancelled']_vars
    /\ [](cancelled => token.live \subseteq token.aborted)
    /\ [](cancelled => token.controllers = {})
    /\ [][\A c \in token'.aborted \ token.aborted :
            \/ c \in token.controllers /\ ~cancelled /\ cancelled'
            \/ cancelled /\ c \in token'.live]_vars

\* one controller was aborted by cancel() and another by a later register()
C18_Witness ==
    /\ cancelled
    /\ token.abortedByRegister # {}
    /\ token.aborted \ token.abortedByRegister # {}
    /\ token.live = token.aborted

\* ============================== providers/http.ts: cache / dedupe keys
MaxSecretLen == 2

SecretAtoms == {"s", "t"}
ApiKeys == UNION {[1..n -> SecretAtoms] : n \in 0..MaxSecretLen}
Urls == {"u1", "u2"}
Bodies == {"b1", "b2"}
Providers == {"openai", "azure"}

\* the header names the providers send, in the order of Array.prototype.sort
\* (UTF-16 code units: upper case before lower case)
HeaderNameOrder == <<"Authorization", "Content-Type", "api-key">>

\* String.prototype.toLowerCase on a header name
LowerName(name) ==
    CASE name = "Authorization" -> "authorization"
      [] name = "Content-Type" -> "content-type"
      [] OTHER -> name

\* String.prototype.toUpperCase on a method
UpperMethod(method) ==
    CASE method = "post" -> "POST"
      [] method = "get" -> "GET"
      [] OTHER -> method

\* String.prototype.length of a header value: "Bearer " is 7 characters
ValueLength(value) ==
    IF value = <<>> THEN 0
    ELSE (IF Head(value) = "Bearer " THEN 7 ELSE 1) + (Len(value) - 1)

\* the RequestInit the providers pass to fetchWithRetry
RequestInit(provider, apiKey, body) ==
    [method |-> "POST",
     headers |-> IF provider = "azure"
                 THEN [n \in {"api-key", "Content-Type"} |->
                          IF n = "api-key" THEN apiKey ELSE <<"application/json">>]
                 ELSE [n \in {"Authorization", "Content-Type"} |->
                          IF n = "Authorization" THEN <<"Bearer ">> \o apiKey
                          ELSE <<"application/json">>],
     body |-> body]

Requests ==
    [provider : Providers, url : Urls, body : Bodies, apiKey : ApiKeys]

\* redactHeaderValue(name, value)
redactHeaderValueCaseSensitive(name, value) ==
    IF name = "authorization" \/ name = "api-key"
    THEN <<"<redacted:", ToString(ValueLength(value)), ">">>
    ELSE value

redactHeaderValue(name, value) ==
    LET lowered == LowerName(name)
    IN IF lowered = "authorization" \/ lowered = "api-key"
       THEN <<"<redacted:", ToString(ValueLength(value)), ">">>
       ELSE value

\* Object.keys(headers).sort()
SortedNames(headers) ==
    SelectSeq(HeaderNameOrder, LAMBDA n : n \in DOMAIN headers)

\* buildRequestKey(url, init, provider)
buildRequestKey(url, init, provider) ==
    LET method == UpperMethod(init.method)
        names == SortedNames(init.headers)
        canonicalHeaders ==
            Join([i \in 1..Len(names) |->
                    <<names[i], ":">> \o redactHeaderValue(names[i], init.headers[names[i]])],
                 <<"|">>)
    IN <<provider, "|", method, "|", url, "|">> \o canonicalHeaders
           \o <<"|", init.body>>

KeyOf(r) == buildRequestKey(r.url, RequestInit(r.provider, r.apiKey, r.body), r.provider)

\* two requests, made one after the other while the first is in flight (or
\* its response is cached and fresh)
KeyInit(a, b) ==
    [pc |-> "ready", a |-> a, b |-> b,
     keyA |-> <<>>, keyB |-> <<>>,
     inFlightRequests |-> {},       \* the keys with a request in flight
     served |-> "none"]             \* how the second request was answered

\* fetchWithRetry for the first request: nothing cached or in flight
FetchWithRetryFirst ==
    /\ req.pc = "ready"
    /\ LET requestKey == KeyOf(req.a)
       IN req' = [req EXCEPT !.pc = "first", !.keyA = requestKey,
                             !.inFlightRequests = {requestKey}]
    /\ UNCHANGED <<cancelled, schedVars, runVars, pageVars, httpVars, fetch, limiter, token, extVars>>

\* fetchWithRetry for the second request: attaches to the request in
\* flight under its key, or starts its own
FetchWithRetrySecond ==
    /\ req.pc = "first"
    /\ LET requestKey == KeyOf(req.b)
       IN req' = [req EXCEPT !.pc = "second", !.keyB = requestKey,
                             !.served = IF requestKey \in req.inFlightRequests
                                        THEN "shared" ELSE "network",
                             !.inFlightRequests = @ \cup {requestKey}]
    /\ UNCHANGED <<cancelled, schedVars, runVars, pageVars, httpVars, fetch, limiter, token, extVars>>

InitKey ==
    /\ ExtUnused
    /\ cancelled = FALSE
    /\ \E a \in Requests, b \in Requests : req = KeyInit(a, b)
    /\ fetch = [pc |-> "unused"]
    /\ limiter = [pc |-> "unused"]
    /\ token = [pc |-> "unused"]
    /\ SchedUnused
    /\ PageUnused
    /\ HttpUnused

NextKey ==
    \/ FetchWithRetryFirst
    \/ FetchWithRetrySecond

SpecKey == InitKey /\ [][NextKey]_vars

\* ================================================= properties of SpecKey
\* value occurs in key as a run of consecutive characters
Contains(key, value) ==
    \E i \in 1..(Len(key) - Len(value) + 1) :
        SubSeq(key, i, i + Len(value) - 1) = value

\* the value of the authorization / api-key header of a request
SecretValue(r) ==
    LET headers == RequestInit(r.provider, r.apiKey, r.body).headers
    IN headers[CHOOSE n \in DOMAIN headers : LowerName(n) \in {"authorization", "api-key"}]

SameExceptCredential(a, b) ==
    /\ a.provider = b.provider
    /\ a.url = b.url
    /\ a.body = b.body

HidesSecret(r, key) ==
    /\ SecretValue(r) # <<>> => ~Contains(key, SecretValue(r))
    /\ \A i \in 1..Len(key) : key[i] \notin SecretAtoms

\* C19: the key of a request does not contain the value of its
\* authorization or api-key header nor any character of the credential,
\* and two requests that differ only in credentials of equal length have
\* the same key.
C19_KeyHidesSecret ==
    /\ req.pc \in {"first", "second"} => HidesSecret(req.a, req.keyA)
    /\ req.pc = "second" => HidesSecret(req.b, req.keyB)
    /\ req.pc = "second" /\ SameExceptCredential(req.a, req.b)
         /\ Len(req.a.apiKey) = Len(req.b.apiKey)
       => req.keyA = req.keyB

\* two different credentials of the same non-zero length, keys built
C19_Witness ==
    /\ req.pc = "second"
    /\ SameExceptCredential(req.a, req.b)
    /\ req.a.apiKey # req.b.apiKey
    /\ Len(req.a.apiKey) = Len(req.b.apiKey)
    /\ req.keyA = req.keyB
    /\ Contains(req.keyA, <<"<redacted:", ToString(ValueLength(SecretValue(req.a))), ">">>)

\* C20 as stated: two requests identical except for different credentials
\* have different keys, and the second is not answered by the request in
\* flight for the first.
C20_Original ==
    req.pc = "second" /\ SameExceptCredential(req.a, req.b)
        /\ req.a.apiKey # req.b.apiKey
    => req.keyA # req.keyB /\ req.served # "shared"

\* ======================================= utils/error-handler.ts, messages
MaxMsgLen == 3

\* the pieces error messages are made of
MsgAtoms == {"max_tokens", "MAX-TOKEN", "max", "tokens", " ", "x", "higher", "Could not finish"}
Messages == UNION {[1..n -> MsgAtoms] : n \in 0..MaxMsgLen}

\* the characters of a piece
MsgChars(w) ==
    CASE w = "max_tokens" -> <<"m", "a", "x", "_", "t", "o", "k", "e", "n", "s">>
      [] w = "MAX-TOKEN" -> <<"M", "A", "X", "-", "T", "O", "K", "E", "N">>
      [] w = "max" -> <<"m", "a", "x">>
      [] w = "tokens" -> <<"t", "o", "k", "e", "n", "s">>
      [] w = " " -> <<" ">>
      [] w = "x" -> <<"x">>
      [] w = "higher" -> <<"h", "i", "g", "h", "e", "r">>
      [] w = "Could not finish" -> <<"C", "o", "u", "l", "d", " ", "n", "o", "t", " ", "f", "i", "n", "i", "s", "h">>
      [] w = "Request timed out." -> <<"R", "e", "q", "u", "e", "s", "t", " ", "t", "i", "m", "e", "d", " ", "o", "u", "t", ".">>
      [] w = "Network error while contacting provider." -> <<"N", "e", "t", "w", "o", "r", "k", " ", "e", "r", "r", "o", "r", " ", "w", "h", "i", "l", "e", " ", "c", "o", "n", "t", "a", "c", "t", "i", "n", "g", " ", "p", "r", "o", "v", "i", "d", "e", "r", ".">>
      [] w = "boom" -> <<"b", "o", "o", "m">>

RECURSIVE MessageChars(_)
MessageChars(message) ==
    IF message = <<>> THEN <<>> ELSE MsgChars(Head(message)) \o MessageChars(Tail(message))

\* String.prototype.toLowerCase, one character
LowerChar(c) ==
    CASE c = "A" -> "a"
      [] c = "C" -> "c"
      [] c = "E" -> "e"
      [] c = "K" -> "k"
      [] c = "M" -> "m"
      [] c = "N" -> "n"
      [] c = "O" -> "o"
      [] c = "R" -> "r"
      [] c = "T" -> "t"
      [] c = "X" -> "x"
      [] OTHER -> c

LowerMessage(chars) == [i \in 1..Len(chars) |-> LowerChar(chars[i])]

\* [a-z]
IsLetter(c) ==
    c \in {"a", "b", "c", "d", "e", "f", "g", "h", "i", "j", "k", "l", "m", "n", "o", "p", "q", "r", "s", "t", "u", "v", "w", "x", "y", "z"}

\* the characters of s from position i on start with pat
StartsAt(s, i, pat) ==
    /\ i >= 1
    /\ i + Len(pat) - 1 <= Len(s)
    /\ SubSeq(s, i, i + Len(pat) - 1) = pat

\* /(^|[^a-z])max[_\s-]?tokens?([^a-z]|$)/i.test(message)
MaxTokensRe(s) ==
    \E i \in 1..Len(s) :
        /\ i = 1 \/ ~IsLetter(LowerChar(s[i - 1]))
        /\ StartsAt(s, i, <<"m", "a", "x">>)
        /\ \E sep \in {0, 1} :
            /\ sep = 1 => i + 3 <= Len(s) /\ s[i + 3] \in {"_", " ", "\n", "\t", "\r", "-"}
            /\ StartsAt(s, i + 3 + sep, <<"t", "o", "k", "e", "n">>)
            /\ \E plural \in {0, 1} :
                LET after == i + 3 + sep + 5 + plural
                IN /\ plural = 1 => StartsAt(s, after - 1, <<"s">>)
                   /\ after > Len(s) \/ ~IsLetter(LowerChar(s[after]))

\* /higher|increase|could not finish|ran out|too low/i.test(message)
BudgetHintRe(s) ==
    \E pat \in {<<"h", "i", "g", "h", "e", "r">>,
                <<"i", "n", "c", "r", "e", "a", "s", "e">>,
                <<"c", "o", "u", "l", "d", " ", "n", "o", "t", " ", "f", "i", "n", "i", "s", "h">>,
                <<"r", "a", "n", " ", "o", "u", "t">>,
                <<"t", "o", "o", " ", "l", "o", "w">>} :
        \E i \in 1..Len(s) : StartsAt(s, i, pat)

\* isAzureMaxTokensError lines 123-128: both patterns on the lower-cased message
MaxTokensMessage(message) ==
    LET lowered == LowerMessage(MessageChars(message))
    IN IF ~MaxTokensRe(lowered) THEN FALSE ELSE BudgetHintRe(lowered)

\* /timed out|timeout/i.test(error.message)
TimedOutRe(s) ==
    \E pat \in {<<"t", "i", "m", "e", "d", " ", "o", "u", "t">>, <<"t", "i", "m", "e", "o", "u", "t">>} :
        \E i \in 1..Len(s) : StartsAt(LowerMessage(s), i, pat)

ErrStatuses == {0, 400, 401, 404, 429, 499, 500, 503}

\* what can be thrown at the error handler: a CancelledError, a
\* ProviderError (status 0 is an absent status), another Error, or a value
\* that is no Error
ThrownValues ==
    {[kind |-> "cancelled", provider |-> "none", status |-> 0, message |-> <<>>],
     [kind |-> "unexpected", provider |-> "none", status |-> 0, message |-> <<"boom">>],
     [kind |-> "unknown", provider |-> "none", status |-> 0, message |-> <<>>]}
    \cup [kind : {"provider"}, provider : {"openai", "azure"}, status : ErrStatuses,
          message : Messages]

\* what requestUrl can fail with inside fetchJson
TransportFailures ==
    [kind : {"unexpected"}, provider : {"none"}, status : {0},
     message : {<<"Request timed out.">>, <<"boom">>}]

\* the error the model's classification works on: maxTok stands for the
\* message matching both patterns
AsError(thrown) ==
    [kind |-> thrown.kind, provider |-> thrown.provider, status |-> thrown.status,
     maxTok |-> MaxTokensMessage(thrown.message)]

\* fetchJson catch block, token not cancelled (http.ts 162-172)
fetchJsonCatch(error, provider) ==
    IF error.kind = "provider" THEN error
    ELSE IF error.kind = "unexpected" /\ TimedOutRe(MessageChars(error.message))
    THEN [kind |-> "provider", provider |-> provider, status |-> 0,
          message |-> <<"Request timed out.">>]
    ELSE [kind |-> "provider", provider |-> provider, status |-> 0,
          message |-> <<"Network error while contacting provider.">>]

ErrInit(thrown, raw) ==
    [pc |-> IF raw THEN "transport" ELSE "thrown",
     thrown |-> thrown,
     transport |-> raw,             \* history: came out of fetchJson's catch
     recoverable |-> FALSE]

\* fetchJson turns a transport failure into a ProviderError
FetchJsonRethrow ==
    /\ err.pc = "transport"
    /\ \E provider \in {"openai", "azure"} :
        err' = [err EXCEPT !.pc = "thrown", !.thrown = fetchJsonCatch(err.thrown, provider)]
    /\ UNCHANGED <<cancelled, schedVars, runVars, pageVars, httpVars, auxVars, seg, note, retry>>

\* isRecoverableError(error)
IsRecoverableCall ==
    /\ err.pc = "thrown"
    /\ err' = [err EXCEPT !.pc = "classified",
                          !.recoverable = isRecoverableError(AsError(err.thrown))]
    /\ UNCHANGED <<cancelled, schedVars, runVars, pageVars, httpVars, auxVars, seg, note, retry>>

InitErr ==
    /\ cancelled = FALSE
    /\ \/ \E thrown \in ThrownValues : err = ErrInit(thrown, FALSE)
       \/ \E thrown \in TransportFailures : err = ErrInit(thrown, TRUE)
    /\ seg = [pc |-> "unused"]
    /\ note = [pc |-> "unused"]
    /\ retry = [pc |-> "unused"]
    /\ SchedUnused
    /\ PageUnused
    /\ HttpUnused
    /\ AuxUnused

NextErr ==
    \/ FetchJsonRethrow
    \/ IsRecoverableCall

SpecErr == InitErr /\ [][NextErr]_vars

\* ================================================= properties of SpecErr
\* C21: isRecoverableError is true for a provider error exactly when its
\* status is absent, 429 or >= 500, or it is an Azure status-400 error
\* whose message matches the max_tokens pattern; true for the cancellation
\* error; false for every other error; and a network or timeout failure
\* leaves fetchJson as a provider error without status, so is recoverable.
C21_Recoverable ==
    err.pc = "classified" =>
        /\ err.thrown.kind = "provider" =>
            (err.recoverable <=>
                \/ err.thrown.status = 0
                \/ err.thrown.status = 429
                \/ err.thrown.status >= 500
                \/ /\ err.thrown.provider = "azure"
                   /\ err.thrown.status = 400
                   /\ MaxTokensMessage(err.thrown.message))
        /\ err.thrown.kind = "cancelled" => err.recoverable
        /\ err.thrown.kind \notin {"provider", "cancelled"} => ~err.recoverable
        /\ err.transport =>
            err.thrown.kind = "provider" /\ err.thrown.status = 0 /\ err.recoverable

\* an Azure 400 whose message asks for a higher max_tokens was classified
C21_Witness ==
    /\ err.pc = "classified"
    /\ err.thrown.provider = "azure"
    /\ err.thrown.status = 400
    /\ err.thrown.message = <<"higher", " ", "max_tokens">>
    /\ err.recoverable

\* ==================================== services/image-processor.ts
\* constants/config.ts
LINE_MIN_HEIGHT_PX == 6
LINE_VERTICAL_PADDING_PX == 8
LINE_MERGE_GAP_PX == 8

MaxBands == 3

\* An image is a stack of horizontal bands of equal rows, top to bottom.
\* A row of an "ink" band is dark over its whole width, a row of a "faint"
\* band has six dark pixels, a "blank" row has none.
Bands ==
    [kind : {"blank", "ink"}, rows : {6, 11}] \cup [kind : {"faint"}, rows : {6}]
Images == UNION {[1..n -> Bands] : n \in 0..MaxBands}
Widths == {18, 1000}

\* detectInkRows lines 205-219 (worker script 126-140): the number of
\* pixels of a row with 0.299 r + 0.587 g + 0.114 b <= LINE_BRIGHTNESS_THRESHOLD
DarkPixels(kind, width) ==
    CASE kind = "ink" -> width
      [] kind = "faint" -> 6
      [] OTHER -> 0

RECURSIVE RowInk(_, _)
RowInk(image, width) ==
    IF image = <<>> THEN <<>>
    ELSE [y \in 1..Head(image).rows |-> DarkPixels(Head(image).kind, width)]
             \o RowInk(Tail(image), width)

RECURSIVE ImageHeight(_)
ImageHeight(image) ==
    IF image = <<>> THEN 0 ELSE Head(image).rows + ImageHeight(Tail(image))

\* Math.round(sum / 3) for a non-negative integer sum
RoundThird(sum) == (2 * sum + 3) \div 6

\* smoothRowInk(rows)
smoothRowInk(rows) ==
    IF Len(rows) <= 2 THEN rows
    ELSE [i \in 1..Len(rows) |->
            IF i = 1 \/ i = Len(rows) THEN rows[i]
            ELSE RoundThird(rows[i - 1] + rows[i] + rows[i + 1])]

\* Math.max(6, Math.floor(width * LINE_MIN_INK_PIXELS_RATIO)), ratio 0.008
MinInkPixels(width) == Max(6, (width * 8) \div 1000)

\* the scan loop of findInkSpans (and of the worker script): y is the
\* 0-based row, start is -1 outside a span
RECURSIVE ScanRows(_, _, _, _, _)
ScanRows(rows, y, start, spans, minInkPixels) ==
    IF y >= Len(rows)
    THEN IF start # -1 THEN Append(spans, [start |-> start, end |-> Len(rows)]) ELSE spans
    ELSE LET hasInk == rows[y + 1] >= minInkPixels
         IN IF hasInk /\ start = -1
            THEN ScanRows(rows, y + 1, y, spans, minInkPixels)
            ELSE IF ~hasInk /\ start # -1
            THEN ScanRows(rows, y + 1, -1, Append(spans, [start |-> start, end |-> y]),
                          minInkPixels)
            ELSE ScanRows(rows, y + 1, start, spans, minInkPixels)

\* the loop of mergeNearbySpans from index i on; merged is non-empty
RECURSIVE MergeLoop(_, _, _, _)
MergeLoop(spans, i, merged, gap) ==
    IF i > Len(spans) THEN merged
    ELSE LET current == spans[i]
             last == merged[Len(merged)]
         IN IF current.start - last.end <= gap
            THEN MergeLoop(spans, i + 1,
                           [merged EXCEPT ![Len(merged)].end = Max(last.end, current.end)],
                           gap)
            ELSE MergeLoop(spans, i + 1, Append(merged, current), gap)

\* mergeNearbySpans(spans, gap)
mergeNearbySpans(spans, gap) ==
    IF Len(spans) = 0 THEN <<>>
    ELSE MergeLoop(spans, 2, <<spans[1]>>, gap)

\* findInkSpans(rows, width)
findInkSpans(rows, width) ==
    LET spans == ScanRows(rows, 0, -1, <<>>, MinInkPixels(width))
        merged == mergeNearbySpans(spans, LINE_MERGE_GAP_PX)
    IN SelectSeq(merged, LAMBDA span : span.end - span.start >= LINE_MIN_HEIGHT_PX)

\* detectInkRows(imageData, width, height)
detectInkRows(image, width) == smoothRowInk(RowInk(image, width))

\* ----------------------------------- services/segmentation-worker.ts
\* worker script 168-182: merged starts empty
RECURSIVE WorkerMergeLoop(_, _, _, _)
WorkerMergeLoop(spans, i, merged, mergeGapPx) ==
    IF i > Len(spans) THEN merged
    ELSE LET current == spans[i]
         IN IF Len(merged) = 0
            THEN WorkerMergeLoop(spans, i + 1, Append(merged, current), mergeGapPx)
            ELSE LET last == merged[Len(merged)]
                 IN IF current.start - last.end <= mergeGapPx
                    THEN WorkerMergeLoop(spans, i + 1,
                             [merged EXCEPT ![Len(merged)].end = Max(last.end, current.end)],
                             mergeGapPx)
                    ELSE WorkerMergeLoop(spans, i + 1, Append(merged, current), mergeGapPx)

\* worker script 142-147
WorkerSmoothed(rowInk) ==
    [i \in 1..Len(rowInk) |->
        IF Len(rowInk) > 2 /\ i >= 2 /\ i <= Len(rowInk) - 1
        THEN RoundThird(rowInk[i - 1] + rowInk[i] + rowInk[i + 1])
        ELSE rowInk[i]]

\* the worker's onmessage handler: the spans it posts back for a request
\* carrying minHeightPx and mergeGapPx (image-processor.ts 126-134)
WorkerScriptSkipsSmoothing(image, width, minHeightPx, mergeGapPx) ==
    LET smoothed == RowInk(image, width)
        minInkPixels == Max(6, (width * 8) \div 1000)
        spans == ScanRows(smoothed, 0, -1, <<>>, minInkPixels)
        merged == WorkerMergeLoop(spans, 1, <<>>, mergeGapPx)
    IN SelectSeq(merged, LAMBDA span : span.end - span.start >= minHeightPx)

WorkerScript(image, width, minHeightPx, mergeGapPx) ==
    LET smoothed == WorkerSmoothed(RowInk(image, width))
        minInkPixels == Max(6, (width * 8) \div 1000)
        spans == ScanRows(smoothed, 0, -1, <<>>, minInkPixels)
        merged == WorkerMergeLoop(spans, 1, <<>>, mergeGapPx)
    IN SelectSeq(merged, LAMBDA span : span.end - span.start >= minHeightPx)

\* ------------------------------------------- segmentImageIntoLines
NoSlices == [has |-> FALSE, slices |-> <<>>]

\* one image, segmented any number of times
SegInit(image, width, workerAvailable) ==
    [pc |-> "idle",                  \* "idle" | "detecting" (awaiting the worker)
     image |-> image,
     width |-> width,
     workerAvailable |-> workerAvailable,   \* getWorker() gives a worker
     segmentationCache |-> NoSlices, \* the cache entry of this image's key
     call |-> [useWorker |-> FALSE, cacheSize |-> 0, context |-> "ok"],
     spans |-> <<>>,                 \* what detectSpans returned
     path |-> "none",                \* history: how the last call ended
     returned |-> FALSE,             \* the last call returned a value
     result |-> <<>>]                \* the value it returned

\* [{ imageDataUrl: prepared.canvas.toDataURL(), top: 0, bottom: height }]
WholePageCollapsed(height) == <<[src |-> "page", top |-> 0, bottom |-> 0]>>

WholePage(height) == <<[src |-> "page", top |-> 0, bottom |-> height]>>

\* the for loop of lines 77-103; lineContext is whether getContext("2d")
\* gives a context for the line canvases
CropSlices(spans, height, lineContext) ==
    LET padded == [i \in 1..Len(spans) |->
                     [src |-> "crop",
                      top |-> Max(0, spans[i].start - LINE_VERTICAL_PADDING_PX),
                      bottom |-> Min(height, spans[i].end + LINE_VERTICAL_PADDING_PX)]]
    IN SelectSeq(padded,
                 LAMBDA slice : ~(slice.bottom - slice.top < LINE_MIN_HEIGHT_PX) /\ lineContext)

\* line 105: slices.length > 0 ? slices : [whole page]
ResultOfWithoutFallback(slices, height) == slices

ResultOf(slices, height) == IF Len(slices) > 0 THEN slices ELSE WholePage(height)

\* remember(cacheKey, value, cacheSize), for the one key of this image
remember(cache, value, cacheSize) ==
    IF cacheSize <= 0 THEN cache ELSE [has |-> TRUE, slices |-> value]

\* lines 67-110, once detectSpans has returned
AfterDetectSpans(st, spans, path) ==
    LET height == ImageHeight(st.image)
        result == IF Len(spans) = 0 THEN WholePage(height)
                  ELSE ResultOf(CropSlices(spans, height, st.call.context = "ok"), height)
    IN [st EXCEPT !.pc = "idle", !.spans = spans, !.path = path,
                  !.returned = TRUE, !.result = result,
                  !.segmentationCache = remember(@, result, st.call.cacheSize)]

\* detectSpans, inline: findInkSpans(detectInkRows(imageData, width, height), width)
InlineSpans(st) == findInkSpans(detectInkRows(st.image, st.width), st.width)

\* lines 37-65 of a call with these options and this canvas behaviour
segmentImageIntoLines(st0, useWorker, cacheSize, context) ==
    LET st == [st0 EXCEPT !.call = [useWorker |-> useWorker, cacheSize |-> cacheSize,
                                    context |-> context],
                          !.spans = <<>>, !.returned = FALSE, !.result = <<>>]
    IN IF cacheSize > 0 /\ st.segmentationCache.has
       THEN [st EXCEPT !.path = "cached", !.returned = TRUE,
                       !.result = st.segmentationCache.slices]
       ELSE IF context = "none"         \* preprocessImage throws CANVAS_CONTEXT
       THEN [st EXCEPT !.path = "threw"]
       ELSE IF ImageHeight(st.image) <= 0
       THEN [st EXCEPT !.path = "empty", !.returned = TRUE,
                       !.result = <<[src |-> "original", top |-> 0, bottom |-> 0]>>]
       ELSE IF useWorker
       THEN IF st.workerAvailable
            THEN [st EXCEPT !.pc = "detecting", !.path = "none"]
            ELSE AfterDetectSpans(st, InlineSpans(st), "fallback")
       ELSE AfterDetectSpans(st, InlineSpans(st), "inline")

SegmentCall ==
    /\ seg.pc = "idle"
    /\ \E useWorker \in BOOLEAN, cacheSize \in {0, 1}, context \in {"ok", "noLine", "none"} :
        seg' = segmentImageIntoLines(seg, useWorker, cacheSize, context)
    /\ UNCHANGED <<cancelled, schedVars, runVars, pageVars, httpVars, auxVars, err, note, retry>>

\* the worker posts { id, spans }
WorkerReply ==
    /\ seg.pc = "detecting"
    /\ seg' = AfterDetectSpans(seg,
                  WorkerScript(seg.image, seg.width, LINE_MIN_HEIGHT_PX, LINE_MERGE_GAP_PX),
                  "worker")
    /\ UNCHANGED <<cancelled, schedVars, runVars, pageVars, httpVars, auxVars, err, note, retry>>

\* the worker posts { id, error }, raises onerror, or is disposed: the
\* pending request is rejected and detectSpans computes the spans inline
WorkerFails ==
    /\ seg.pc = "detecting"
    /\ seg' = AfterDetectSpans(seg, InlineSpans(seg), "fallback")
    /\ UNCHANGED <<cancelled, schedVars, runVars, pageVars, httpVars, auxVars, err, note, retry>>

\* clearSegmentationCache()
ClearSegmentationCache ==
    /\ seg.pc # "unused"
    /\ seg.segmentationCache.has
    /\ seg' = [seg EXCEPT !.segmentationCache = NoSlices]
    /\ UNCHANGED <<cancelled, schedVars, runVars, pageVars, httpVars, auxVars, err, note, retry>>

InitSeg ==
    /\ cancelled = FALSE
    /\ \E image \in Images, width \in Widths, workerAvailable \in BOOLEAN :
        seg = SegInit(image, width, workerAvailable)
    /\ err = [pc |-> "unused"]
    /\ note = [pc |-> "unused"]
    /\ retry = [pc |-> "unused"]
    /\ SchedUnused
    /\ PageUnused
    /\ HttpUnused
    /\ AuxUnused

NextSeg ==
    \/ SegmentCall
    \/ WorkerReply
    \/ WorkerFails
    \/ ClearSegmentationCache

SpecSeg == InitSeg /\ [][NextSeg]_vars

\* ================================================= properties of SpecSeg
\* C22: every value segmentImageIntoLines returns, on the cached, worker
\* and inline paths, holds at least one slice; when no span survives or no
\* slice can be cropped it is the single slice covering the whole page.
C22_AtLeastOneSlice ==
    /\ seg.segmentationCache.has => Len(seg.segmentationCache.slices) >= 1
    /\ seg.returned =>
        /\ Len(seg.result) >= 1
        /\ seg.path \in {"worker", "inline", "fallback"}
             /\ (seg.spans = <<>> \/ ~\E i \in 1..Len(seg.result) : seg.result[i].src = "crop")
           => seg.result = WholePage(ImageHeight(seg.image))

\* the worker found spans but no line canvas could be drawn
C22_Witness ==
    /\ seg.returned
    /\ seg.path = "worker"
    /\ seg.spans # <<>>
    /\ seg.call.context = "noLine"
    /\ seg.result = WholePage(ImageHeight(seg.image))

\* C23 as stated: consecutive slices of a result satisfy s.top < t.top and
\* s.bottom <= t.top.
C23_Original ==
    seg.returned =>
        \A i \in 1..(Len(seg.result) - 1) :
            /\ seg.result[i].top < seg.result[i + 1].top
            /\ seg.result[i].bottom <= seg.result[i + 1].top

\* C24: the spans detectSpans returns are those of the inline computation
\* whichever path produced them (worker reply, inline, or inline after the
\* worker was unavailable, failed or was disposed), so the slices of an
\* uncached call depend only on the image and the canvas.
C24_SamePathResult ==
    seg.returned /\ seg.path \in {"worker", "inline", "fallback"} =>
        /\ seg.spans = findInkSpans(detectInkRows(seg.image, seg.width), seg.width)
        /\ seg.result =
             (IF seg.spans = <<>> THEN WholePage(ImageHeight(seg.image))
              ELSE ResultOf(CropSlices(findInkSpans(detectInkRows(seg.image, seg.width),
                                                    seg.width),
                                       ImageHeight(seg.image), seg.call.context = "ok"),
                            ImageHeight(seg.image)))

\* the worker answered with two spans
C24_Witness ==
    /\ seg.returned
    /\ seg.path = "worker"
    /\ Len(seg.spans) = 2
    /\ Len(seg.result) = 2

\* =================== runConversionForFile: the pages of one note, end to end
MaxPages == 2

BuyMilk == <<"B", "u", "y", " ", "m", "i", "l", "k">>

\* what transcribe-line calls answer: the text, or the text in lower case
NoteLineReplies == {BuyMilk, <<"b", "u", "y", " ", "m", "i", "l", "k">>}

\* what the page-format call answers: the text, the text as a heading,
\* nothing, or fewer words
NoteFormatReplies == {BuyMilk, <<"#", " ">> \o BuyMilk, <<>>, <<"m", "i", "l", "k">>}

\* pageMarkdown.join("\n\n")
CombinePagesOneNewline(pageMarkdown) == Join(pageMarkdown, <<"\n">>)

CombinePages(pageMarkdown) == Join(pageMarkdown, <<"\n", "\n">>)

\* runWithConcurrency has launched the first min(limit, n) page tasks, each
\* of which awaits segmentImageIntoLines
NoteInit(nPages, maxConcurrency) ==
    [pc |-> "running",              \* "running" | "joined"
     nPages |-> nPages,             \* embeds.length
     limit |-> maxConcurrency,      \* settings.maxConcurrency
     index |-> Min(maxConcurrency, nPages),     \* tasks launched
     pages |-> [i \in 1..nPages |->
                  IF i <= Min(maxConcurrency, nPages) THEN PageInit
                  ELSE [PageInit EXCEPT !.pc = "waiting"]],
     pageMarkdown |-> [i \in 1..nPages |-> <<>>],   \* results
     order |-> <<>>,                \* history: pages in completion order
     lineReplies |-> {},            \* history: the transcribe-line answers
     formatReplies |-> {},          \* history: the page-format answers
     combined |-> <<>>]             \* combined

\* segmentImageIntoLines gives one slice for page i
NoteSegmentDone ==
    /\ note.pc = "running"
    /\ \E i \in 1..note.nPages :
        /\ note.pages[i].pc = "segmenting"
        /\ note' = [note EXCEPT
                      !.pages[i] = LoopHead([@ EXCEPT !.totalLines = 1], 1, cancelled)]
    /\ UNCHANGED <<cancelled, schedVars, runVars, pageVars, httpVars, auxVars, err, seg, retry>>

\* page i's task resolved with markdown: results[i] is set and launchNext
\* starts the next page, if any
PageTaskDone(st, i, markdown) ==
    LET next == st.index + 1
        stored == [st EXCEPT !.pageMarkdown[i] = markdown, !.order = Append(@, i)]
    IN IF st.index < st.nPages
       THEN [stored EXCEPT !.index = next, !.pages[next].pc = "segmenting"]
       ELSE stored

\* a provider call of page i resolves
NoteCallResolve ==
    /\ note.pc = "running"
    /\ \E i \in 1..note.nPages :
        /\ note.pages[i].pc = "call"
        /\ \E r \in ResponsesFor(note.pages[i].callKind,
                                 NoteLineReplies, {BuyMilk}, NoteFormatReplies) :
            LET after == OnResolve(note.pages[i], r, cancelled)
                seen == IF note.pages[i].callKind = "F"
                        THEN [note EXCEPT !.pages[i] = after, !.formatReplies = @ \cup {r}]
                        ELSE [note EXCEPT !.pages[i] = after, !.lineReplies = @ \cup {r}]
            IN note' = IF after.pc = "returned"
                       THEN PageTaskDone(seen, i, after.result)
                       ELSE seen
    /\ UNCHANGED <<cancelled, schedVars, runVars, pageVars, httpVars, auxVars, err, seg, retry>>

\* runWithConcurrency resolved: plugin.ts 277
NoteJoin ==
    /\ note.pc = "running"
    /\ \A i \in 1..note.nPages : note.pages[i].pc = "returned"
    /\ note' = [note EXCEPT !.pc = "joined", !.combined = CombinePages(note.pageMarkdown)]
    /\ UNCHANGED <<cancelled, schedVars, runVars, pageVars, httpVars, auxVars, err, seg, retry>>

InitNote ==
    /\ cancelled = FALSE
    /\ \E nPages \in 1..MaxPages, maxConcurrency \in 1..MaxPages :
        note = NoteInit(nPages, maxConcurrency)
    /\ err = [pc |-> "unused"]
    /\ seg = [pc |-> "unused"]
    /\ retry = [pc |-> "unused"]
    /\ SchedUnused
    /\ PageUnused
    /\ HttpUnused
    /\ AuxUnused

NextNote ==
    \/ NoteSegmentDone
    \/ NoteCallResolve
    \/ NoteJoin

SpecNote == InitNote /\ [][NextNote]_vars

\* ================================================ properties of SpecNote
\* n copies of "Buy milk", one blank line between them
BuyMilkPages(n) == Join([i \in 1..n |-> BuyMilk], <<"\n", "\n">>)

\* C25 as stated: when every transcribe-line call returned "Buy milk", the
\* joined output of the two-page note is "Buy milk\n\nBuy milk".
C25_Original ==
    note.pc = "joined" /\ note.nPages = 2 /\ note.lineReplies = {BuyMilk}
    => note.combined = BuyMilkPages(2)

\* C25 (amended): when every transcribe-line call and every page-format
\* call returned "Buy milk", the joined output is "Buy milk" once per page
\* with one blank line between pages, whatever order the pages complete in.
C25_JoinedOutput ==
    note.pc = "joined" /\ note.lineReplies = {BuyMilk} /\ note.formatReplies = {BuyMilk}
    => note.combined = BuyMilkPages(note.nPages)

\* two pages, the second completing first
C25_Witness ==
    /\ note.pc = "joined"
    /\ note.nPages = 2
    /\ note.order = <<2, 1>>
    /\ note.lineReplies = {BuyMilk}
    /\ note.formatReplies = {BuyMilk}
    /\ note.combined = BuyMilk \o <<"\n", "\n">> \o BuyMilk

\* ------------------------------------------------------------------ C26
\* the step is the .finally() reaction of a task that resolved
FinallyOfResolved ==
    /\ microtasks # <<>>
    /\ Head(microtasks).stage = "finally"
    /\ taskState[Head(microtasks).task] = "resolved"
    /\ inFlight' = inFlight - 1

NoLaunchWhileCancelled ==
    cancelled =>
        /\ index' = index
        /\ \A i \in Tasks : taskState[i] = "unlaunched" => taskState'[i] = "unlaunched"

\* C26 as stated: once the token is cancelled no unlaunched task is started,
\* and when a task completes after the cancel with unlaunched tasks left,
\* the operation is rejected with the cancellation error.
C26_Original ==
    /\ [][NoLaunchWhileCancelled]_vars
    /\ [][FinallyOfResolved /\ cancelled /\ index < nTasks
            => outcome' = Rejected(CancelledError)]_vars

\* C26 (amended): once the token is cancelled no unlaunched task is
\* started; when a task completes after the cancel with unlaunched tasks
\* left, the operation is rejected: with the cancellation error if it was
\* still pending, and otherwise it keeps the rejection it already had (the
\* error of the task whose failure cancelled the token).
C26_NoLaunchAfterCancel ==
    /\ [][NoLaunchWhileCancelled]_vars
    /\ [][FinallyOfResolved /\ cancelled /\ index < nTasks
            => /\ outcome'.kind = "rejected"
               /\ outcome.kind = "pending" => outcome' = Rejected(CancelledError)
               /\ outcome.kind # "pending" => outcome' = outcome]_vars

\* the user cancelled while tasks ran, a task then resolved, and the
\* operation was rejected with the cancellation error, a task never started
C26_Witness ==
    /\ cancelled
    /\ outcome = Rejected(CancelledError)
    /\ Failed = {}
    /\ \E i \in Tasks : taskState[i] = "resolved"
    /\ index < nTasks
    /\ \A i \in Tasks : i > index => taskState[i] = "unlaunched"

\* ============================= properties of the line loop (SpecPage)
\* the step brings transcribeImageByLines to the head of its loop with a
\* slice left: segmentation resolved with at least one slice, or a slice
\* that is not the last one was finished
ReachesLineStart ==
    \/ page.pc = "segmenting" /\ page'.pc # "segmenting" /\ page'.totalLines >= 1
    \/ /\ page.pc = "call"
       /\ page'.lastLine # page.lastLine
       /\ page'.lastLine.slice < page'.totalLines

\* C27: when the token is cancelled as the page pipeline reaches the start
\* of a line, the page attempt ends with the cancellation error thrown to
\* the caller, no provider call is issued for that line, and since the page
\* task has failed none is issued for a later line or for the page format
C27_CancelAtLineStart ==
    /\ [][cancelled /\ ReachesLineStart
            => /\ page'.pc = "failed"
               /\ page'.error = CancelledError
               /\ page'.callKind = "none"
               /\ page'.outstanding \subseteq page.outstanding
               /\ page'.sliceLog = page.sliceLog \/ Len(page'.sliceLog) = Len(page.sliceLog) + 1
               /\ Invocations(page'.sliceLog, "A") = Invocations(page.sliceLog, "A")]_vars
    /\ [][page.pc = "failed" => page' = page]_vars

\* the first slice was finished, the token was found cancelled at the head of
\* the loop for the second one, and the page failed with the cancellation error
C27_Witness ==
    /\ cancelled
    /\ page.pc = "failed"
    /\ page.error = CancelledError
    /\ page.lastLine.slice >= 1
    /\ page.lineIdx = page.lastLine.slice
    /\ page.lineIdx < page.totalLines
    /\ page.outstanding = {}

\* the step finishes the last slice of the page
LastLineResolved ==
    /\ page.pc = "call"
    /\ page'.lastLine # page.lastLine
    /\ page'.lastLine.slice = page'.totalLines

\* C28: when the last line is resolved and no line kept a non-empty chosen
\* text, the page returns the empty string and no page-format call is issued;
\* otherwise the page-format call is issued, and it is issued only then: once
\* per page attempt, any further invocation being a line-level retry
C28_FormatOncePerAttempt ==
    /\ [][LastLineResolved
            => IF page'.lineResults = <<>>
               THEN /\ page'.pc = "returned"
                    /\ page'.result = <<>>
                    /\ page'.callKind = "none"
                    /\ \A c \in page'.outstanding : c.kind # "F"
               ELSE /\ page'.pc = "call"
                    /\ page'.callKind = "F"
                    /\ page'.lineAttempt = 0
                    /\ Invocations(page'.sliceLog, "F") = 1
                    /\ \E c \in page'.outstanding : c.kind = "F"]_vars
    /\ [][page.pc = "segmenting"
            => /\ page'.callKind # "F"
               /\ page'.pc = "returned" => page'.result = <<>> /\ page'.lineResults = <<>>]_vars
    /\ [][page'.callKind = "F" /\ page.callKind # "F" => LastLineResolved]_vars
    /\ [][page.callKind = "F"
            => /\ page'.callKind = "F" \/ page'.pc \in {"returned", "failed", "pageBackoff"}
               /\ Invocations(page'.sliceLog, "F") > Invocations(page.sliceLog, "F")
                     => page.pc = "lineBackoff"]_vars

\* a page of two slices whose lines all came out empty returned ""
C28_Witness ==
    /\ page.pc = "returned"
    /\ page.totalLines = MaxLines
    /\ page.lastLine.slice = page.totalLines
    /\ page.lineResults = <<>>
    /\ page.result = <<>>
    /\ page.rawPage = <<>>

\* a page with a kept line has its page-format call in flight after a retry
C28_WitnessFormat ==
    /\ page.pc = "call"
    /\ page.callKind = "F"
    /\ page.lineResults # <<>>
    /\ page.lineAttempt = 1

\* ================= one provider call that always fails recoverably
\* (transcription.ts withRetry inside plugin.ts transcribeImageWithRecovery)
\* The page has nLines slices; the call `doomed` rejects with a recoverable
\* error every time it is invoked and every other call resolves.  `invoked`
\* counts the invocations of the doomed call over all page attempts.
RetryResponses == {<<"a">>, <<"b">>}

\* the recoverable errors a provider call can reject with
RecoverableErrors ==
    {e \in CallErrors \cup {ProviderError("openai", 500, FALSE), ProviderError("openai", 0, FALSE)} :
        isRecoverableError(e)}

\* the provider calls a page of nLines slices can issue
PageCalls(nLines) ==
    {ProviderCall(s, k) : s \in 1..nLines, k \in {"A", "B", "J"}}
        \cup {ProviderCall(nLines + 1, "F")}

RetryInit(nLines, call) ==
    [pc |-> "run", nLines |-> nLines, doomed |-> call, invoked |-> 0]

\* the provider call the page pipeline awaits
CurrentCall(st) == ProviderCall(st.lineIdx, st.callKind)

\* the pipeline moved to st by issuing a provider call, or did not
CountInvocation(st) ==
    IF st.pc = "call" /\ CurrentCall(st) = retry.doomed
    THEN [retry EXCEPT !.invoked = @ + 1]
    ELSE retry

RetryFrame ==
    UNCHANGED <<maxLineRetries, maxPageRetries, schedVars, runVars, httpVars, auxVars,
                err, seg, note>>

\* segmentImageIntoLines resolves with the slices of the page
RetrySegmentDone ==
    /\ page.pc = "segmenting"
    /\ page' = LoopHead([page EXCEPT !.totalLines = retry.nLines], 1, cancelled)
    /\ retry' = CountInvocation(page')
    /\ UNCHANGED cancelled
    /\ RetryFrame

\* a call other than the doomed one resolves
RetryResolve ==
    /\ page.pc = "call"
    /\ CurrentCall(page) # retry.doomed
    /\ \E r \in RetryResponses : page' = OnResolve(page, r, cancelled)
    /\ retry' = CountInvocation(page')
    /\ UNCHANGED cancelled
    /\ RetryFrame

\* the doomed call rejects with a recoverable error
RetryReject ==
    /\ page.pc = "call"
    /\ CurrentCall(page) = retry.doomed
    /\ \E e \in RecoverableErrors :
          /\ e = CancelledError => cancelled
          /\ page' = OnReject(page, e, cancelled)
    /\ UNCHANGED <<cancelled, retry>>
    /\ RetryFrame

\* withRetry's wait is over: the call is invoked again
RetryLineBackoffDone ==
    /\ page.pc = "lineBackoff"
    /\ page' = IssueCall([page EXCEPT !.lineAttempt = @ + 1, !.lineError = NoError],
                          page.callKind)
    /\ retry' = CountInvocation(page')
    /\ UNCHANGED cancelled
    /\ RetryFrame

\* transcribeImageWithRecovery's wait is over: the next page attempt starts
RetryPageBackoffDone ==
    /\ page.pc = "pageBackoff"
    /\ page' = [PageInit EXCEPT !.attempt = page.attempt + 1, !.error = page.error]
    /\ UNCHANGED <<cancelled, retry>>
    /\ RetryFrame

\* token.cancel() while the page pipeline is suspended
RetryCancel ==
    /\ page.pc \in {"segmenting", "call", "lineBackoff", "pageBackoff"}
    /\ ~cancelled
    /\ cancelled' = TRUE
    /\ UNCHANGED <<page, retry>>
    /\ RetryFrame

InitRetry ==
    /\ cancelled = FALSE
    /\ maxLineRetries \in 0..MaxLineRetries
    /\ maxPageRetries \in 0..MaxPageRetries
    /\ page = PageInit
    /\ \E nLines \in 1..MaxLines : \E call \in PageCalls(nLines) :
          retry = RetryInit(nLines, call)
    /\ SchedUnused
    /\ HttpUnused
    /\ AuxUnused
    /\ err = [pc |-> "unused"]
    /\ seg = [pc |-> "unused"]
    /\ note = [pc |-> "unused"]

NextRetry ==
    \/ RetrySegmentDone
    \/ RetryResolve
    \/ RetryReject
    \/ RetryLineBackoffDone
    \/ RetryPageBackoffDone
    \/ RetryCancel

SpecRetry == InitRetry /\ [][NextRetry]_vars

RetryBudget == (maxLineRetries + 1) * (maxPageRetries + 1)

\* C29: a recoverable failure of a provider call is passed to the page-level
\* catch only when withRetry has invoked that call maxLineRetries + 1 times
\* in the page attempt, and with the token not cancelled the page task fails
\* only in page attempt maxPageRetries + 1; the call that always fails has
\* then been invoked exactly (maxLineRetries + 1) * (maxPageRetries + 1)
\* times, and is never invoked more often
C29_RetryBudget ==
    /\ [](retry.invoked <= RetryBudget)
    /\ [](page.pc = "failed" /\ ~cancelled
            => retry.invoked = RetryBudget /\ page.attempt = maxPageRetries)
    /\ [][page.pc = "call" /\ CurrentCall(page) = retry.doomed
              /\ page'.pc \in {"pageBackoff", "failed"}
            => /\ page.lineAttempt = maxLineRetries
               /\ Invocations(page'.sliceLog, page.callKind) = maxLineRetries + 1
               /\ retry.invoked = (maxLineRetries + 1) * (page.attempt + 1)]_vars
    /\ [][~cancelled /\ page'.pc = "failed" /\ page.pc # "failed"
            => page.attempt = maxPageRetries]_vars

\* the arbiter call of the second slice failed four times over two page
\* attempts of two line attempts each, and the page task failed
C29_Witness ==
    /\ page.pc = "failed"
    /\ ~cancelled
    /\ maxLineRetries = 1
    /\ maxPageRetries = 1
    /\ retry.doomed = ProviderCall(2, "J")
    /\ retry.invoked = 4
    /\ isRecoverableError(page.error)

\* ============================ the in-flight request map (SpecFetch)
\* the keys that have an entry in inFlightRequests
InFlightKeys(st) == {p.key : p \in st.inFlightRequests}

\* C30: inFlightRequests holds, for each request that has started and not
\* settled, one entry under its key with that request's promise, and nothing
\* else, so it is empty when no request is pending; an entry appears only in
\* the call that starts the request and disappears only when the request
\* under its key settles, by success, failure or cancellation
C30_InFlightEntries ==
    /\ [](fetch.inFlightRequests = {[key |-> t.key, task |-> t.id] : t \in fetch.tasks})
    /\ [](fetch.tasks = {} => fetch.inFlightRequests = {})
    /\ [][\A k \in FetchKeys :
            /\ k \in InFlightKeys(fetch') \ InFlightKeys(fetch)
                  => /\ fetch'.last.op = "start" /\ fetch'.last.key = k
                     /\ [id |-> fetch'.nCalls, key |-> k] \in fetch'.tasks \ fetch.tasks
            /\ k \in InFlightKeys(fetch) \ InFlightKeys(fetch')
                  => /\ TasksFor(fetch, k) # {}
                     /\ TasksFor(fetch', k) = {}
                     /\ fetch'.last.key = k
                     /\ fetch'.last.op \in {"settle", "write"}]_vars

\* a request has just failed or been cancelled and its entry is gone, while
\* the request of another key is still pending with its entry in the map
C30_Witness ==
    /\ fetch.last.op = "settle"
    /\ fetch.last.key \notin InFlightKeys(fetch)
    /\ fetch.inFlightRequests # {}
    /\ fetch.nCalls >= 3

\* ============================== writes of the response cache (SpecFetch)
\* what the cache stores under key: the response, its expiry and the write
\* that stored it; NoOp.returned (<<>>) when the key has no entry
Stored(st, key) ==
    LET i == MapIndex(st.responseCache, key, 1)
    IN IF i = 0 THEN <<>>
       ELSE <<st.responseCache[i].value.content, st.responseCache[i].expiresAt,
              st.responseCache[i].written>>

\* a request settled in this step
TaskSettled == fetch'.tasks # fetch.tasks /\ fetch'.tasks \subseteq fetch.tasks

\* C31: an entry of the response cache is created or given a new response
\* only in the step in which a request with its key succeeds, and only with
\* caching enabled and a TTL greater than 0; a request that fails (by error,
\* time-out or cancellation) leaves the cache as it was
C31_WriteOnlyOnSuccess ==
    /\ [][\A k \in FetchKeys :
            Stored(fetch', k) # Stored(fetch, k) /\ Stored(fetch', k) # <<>>
               => /\ TaskSettled
                  /\ TasksFor(fetch, k) # {} /\ TasksFor(fetch', k) = {}
                  /\ fetch'.last.op = "write" /\ fetch'.last.key = k
                  /\ fetch.options.useCache
                  /\ fetch.options.cacheTtlMs > 0]_vars
    /\ [][fetch'.opCount > fetch.opCount /\ fetch'.last.op = "write"
            => fetch.options.useCache /\ fetch.options.cacheTtlMs > 0 /\ TaskSettled]_vars
    /\ [][TaskSettled /\ fetch'.last.op = "settle"
            => /\ fetch'.responseCache = fetch.responseCache
               /\ fetch'.cacheBytesInUse = fetch.cacheBytesInUse
               /\ fetch'.written = fetch.written]_vars

\* with caching on, a request failed while the cache held an entry written
\* by an earlier success
C31_Witness ==
    /\ fetch.options.useCache
    /\ fetch.options.cacheTtlMs > 0
    /\ fetch.last.op = "settle"
    /\ fetch.responseCache # <<>>
    /\ Stored(fetch, fetch.last.key) = <<>>
    /\ fetch.written[fetch.last.key].content = <<>>

\* ===================== providers/rate-limiter.ts: the chain of turns
\* The queue of a RateLimiter is a chain of promises: waitTurn() chains its
\* body on the promise stored in this.queue and stores the new promise.
\* Waiters are numbered in the order of their waitTurn calls; waiter n is
\* [after, st]: the waiter whose promise its body is chained on (0 is the
\* resolved promise of the constructor) and pending | delaying | done.
TurnRates == {1, MaxRequestsPerSecond}

TurnsInit(requestsPerSecond) ==
    [pc |-> "turns",
     minIntervalMs |-> minIntervalMs(requestsPerSecond),
     sinceLastRun |-> MsPerSecond, \* Date.now() - lastRun, at most MsPerSecond
     waiters |-> <<>>,
     grantOrder |-> <<>>]       \* history: the waiters in the order of their turns

\* the promise this.queue holds when waitTurn is called: the one of the last
\* waiter
ChainedOnConstructorPromise(st) == 0

ChainedOn(st) == Len(st.waiters)

\* the promise waiter n is chained on is fulfilled
PromiseFulfilled(st, n) == IF n = 0 THEN TRUE ELSE st.waiters[n].st = "done"

\* this.lastRun = Date.now(): the body of waiter n ends, its promise is
\* fulfilled and the caller has its turn
TurnGranted(st, n) ==
    [st EXCEPT !.waiters[n].st = "done",
               !.sinceLastRun = 0,
               !.grantOrder = Append(@, n)]

\* waitTurn()
TurnsWaitTurn ==
    /\ limiter.pc = "turns"
    /\ Len(limiter.waiters) < MaxWaiters
    /\ limiter' = [limiter EXCEPT
                     !.waiters = Append(@, [after |-> ChainedOn(limiter), st |-> "pending"])]
    /\ UNCHANGED <<cancelled, schedVars, runVars, pageVars, httpVars, fetch, token, req, extVars>>

\* the body of a waiter whose predecessor promise is fulfilled runs up to
\* its await, or to its end when there is nothing to wait for
TurnsBody ==
    /\ limiter.pc = "turns"
    /\ \E n \in 1..Len(limiter.waiters) :
          /\ limiter.waiters[n].st = "pending"
          /\ PromiseFulfilled(limiter, limiter.waiters[n].after)
          /\ LET waitMs == Max(0, limiter.minIntervalMs - limiter.sinceLastRun)
             IN limiter' = IF waitMs > 0
                           THEN [limiter EXCEPT !.waiters[n].st = "delaying"]
                           ELSE TurnGranted(limiter, n)
    /\ UNCHANGED <<cancelled, schedVars, runVars, pageVars, httpVars, fetch, token, req, extVars>>

\* the timer of delay(waitMs) of a waiter fires
TurnsDelayOver ==
    /\ limiter.pc = "turns"
    /\ \E n \in 1..Len(limiter.waiters) :
          /\ limiter.waiters[n].st = "delaying"
          /\ limiter' = TurnGranted(limiter, n)
    /\ UNCHANGED <<cancelled, schedVars, runVars, pageVars, httpVars, fetch, token, req, extVars>>

\* time passes
TurnsIdle ==
    /\ limiter.pc = "turns"
    /\ limiter.sinceLastRun < MsPerSecond
    /\ \E d \in IdleTimes :
          limiter' = [limiter EXCEPT !.sinceLastRun = Min(MsPerSecond, @ + d)]
    /\ UNCHANGED <<cancelled, schedVars, runVars, pageVars, httpVars, fetch, token, req, extVars>>

InitTurns ==
    /\ ExtUnused
    /\ cancelled = FALSE
    /\ \E r \in TurnRates : limiter = TurnsInit(r)
    /\ fetch = [pc |-> "unused"]
    /\ token = [pc |-> "unused"]
    /\ req = [pc |-> "unused"]
    /\ SchedUnused
    /\ PageUnused
    /\ HttpUnused

NextTurns ==
    \/ TurnsWaitTurn
    \/ TurnsBody
    \/ TurnsDelayOver
    \/ TurnsIdle

\* promise reactions that are ready are run and timers fire
SpecTurns ==
    /\ InitTurns
    /\ [][NextTurns]_vars
    /\ WF_vars(TurnsBody)
    /\ WF_vars(TurnsDelayOver)

\* waiter n has been granted its turn
TurnDone(n) == n <= Len(limiter.waiters) /\ limiter.waiters[n].st = "done"

\* the body of waiter n is running (it awaits its delay)
TurnRunning(n) == n <= Len(limiter.waiters) /\ limiter.waiters[n].st = "delaying"

\* C32: turns are granted in the order of the waitTurn calls, one at a time
\* (the body of a waiter runs only when every earlier waiter has had its
\* turn), and every waiter that called waitTurn eventually has its turn
C32_FifoTurns ==
    /\ [](\A i \in 1..Len(limiter.grantOrder) : limiter.grantOrder[i] = i)
    /\ [](\A n \in 1..MaxWaiters :
             TurnRunning(n) \/ TurnDone(n) => \A m \in 1..(n - 1) : TurnDone(m))
    /\ \A n \in 1..MaxWaiters : (n <= Len(limiter.waiters)) ~> TurnDone(n)

\* three callers were waiting at once, the first has had its turn and the
\* second is delayed while the third is still chained behind it
C32_Witness ==
    /\ Len(limiter.waiters) = 3
    /\ limiter.grantOrder = <<1>>
    /\ limiter.waiters[2].st = "delaying"
    /\ limiter.waiters[3].st = "pending"

\* ================ segmentation of short and tall pages (SpecSegShort)
\* images whose bands are three or six rows high: a page can be lower than
\* LINE_MIN_HEIGHT_PX and a run of ink rows shorter than a line
ShortBands == [kind : {"blank", "ink"}, rows : {3, 6}]
ShortImages == UNION {[1..n -> ShortBands] : n \in 0..MaxBands}

InitSegShort ==
    /\ cancelled = FALSE
    /\ \E image \in ShortImages, width \in Widths, workerAvailable \in BOOLEAN :
        seg = SegInit(image, width, workerAvailable)
    /\ err = [pc |-> "unused"]
    /\ note = [pc |-> "unused"]
    /\ retry = [pc |-> "unused"]
    /\ SchedUnused
    /\ PageUnused
    /\ HttpUnused
    /\ AuxUnused

SpecSegShort == InitSegShort /\ [][NextSeg]_vars

\* the image has a row that detectInkRows / findInkSpans take for ink
HasInkRow(st) ==
    \E y \in 1..ImageHeight(st.image) :
        detectInkRows(st.image, st.width)[y] >= MinInkPixels(st.width)

\* every slice of the value returned is at least LINE_MIN_HEIGHT_PX high
SlicesHighEnough(st) ==
    \A i \in 1..Len(st.result) :
        st.result[i].bottom - st.result[i].top >= LINE_MIN_HEIGHT_PX

\* C33 as stated: for every input with at least one ink row, every slice
\* returned is at least minHeightPx (6) high
C33_Original ==
    seg.returned /\ HasInkRow(seg) => SlicesHighEnough(seg)

\* C33: for every input with at least one ink row and a page at least
\* minHeightPx (6) high, every slice returned, on every path, is at least
\* minHeightPx high
C33_SliceHeight ==
    seg.returned /\ HasInkRow(seg) /\ ImageHeight(seg.image) >= LINE_MIN_HEIGHT_PX
        => SlicesHighEnough(seg)

\* a page with a run of three ink rows only: no span survives and the
\* whole page, nine rows high, is returned
C33_Witness ==
    /\ seg.returned
    /\ HasInkRow(seg)
    /\ seg.spans = <<>>
    /\ seg.path \in {"inline", "worker"}
    /\ ImageHeight(seg.image) = 9
    /\ seg.result = WholePage(9)

\* ============= services/image-processor.ts: the segmentation cache
\* segmentationCache over several images: the Map as the sequence of its
\* entries in insertion order.  A call that misses the cache awaits the
\* image and the spans before it calls remember, so calls overlap.
MaxSegCalls == 3
MaxCacheSize == 2

SegKeys == {"k1", "k2", "k3"}
CacheSizes == 0..MaxCacheSize

NoCacheOp == [op |-> "none", key |-> "", cacheSize |-> 0, evicted |-> <<>>]

SegCacheInit ==
    [pc |-> "cache",
     entries |-> <<>>,          \* segmentationCache: [key, value, insertedAt]
     pending |-> {},            \* calls past the cache check, before remember
     nCalls |-> 0,              \* history: segmentImageIntoLines calls made
     inserts |-> 0,             \* history: keys added to the Map so far
     last |-> NoCacheOp]        \* history: the last operation

\* position of cacheKey in the Map, 0 when it is absent
RECURSIVE SegIndex(_, _, _)
SegIndex(entries, cacheKey, i) ==
    IF i > Len(entries) THEN 0
    ELSE IF entries[i].key = cacheKey THEN i
    ELSE SegIndex(entries, cacheKey, i + 1)

\* segmentationCache.set(cacheKey, value): a key already in the Map keeps
\* its place, a new key goes to the end
SegSet(entries, cacheKey, value, stamp) ==
    LET i == SegIndex(entries, cacheKey, 1)
    IN IF i # 0 THEN [entries EXCEPT ![i].value = value]
       ELSE Append(entries, [key |-> cacheKey, value |-> value, insertedAt |-> stamp])

\* a loop that deletes the last key while the Map is too big
RECURSIVE SegEvictNewest(_, _)
SegEvictNewest(c, cacheSize) ==
    IF Len(c.entries) > cacheSize
    THEN SegEvictNewest([entries |-> SubSeq(c.entries, 1, Len(c.entries) - 1),
                         evicted |-> Append(c.evicted, c.entries[Len(c.entries)].key)],
                        cacheSize)
    ELSE c

\* the while loop of remember: delete the first key while the Map is too big
RECURSIVE SegEvict(_, _)
SegEvict(c, cacheSize) ==
    IF Len(c.entries) > cacheSize
    THEN SegEvict([entries |-> Tail(c.entries),
                   evicted |-> Append(c.evicted, Head(c.entries).key)],
                  cacheSize)
    ELSE c

\* remember(cacheKey, value, cacheSize) on the Map of several keys
rememberKeyEvictsNewest(st, cacheKey, value, cacheSize) ==
    IF cacheSize <= 0
    THEN [st EXCEPT !.last = [op |-> "skip", key |-> cacheKey, cacheSize |-> cacheSize,
                              evicted |-> <<>>]]
    ELSE LET isNew == SegIndex(st.entries, cacheKey, 1) = 0
             c == SegEvictNewest([entries |-> SegSet(st.entries, cacheKey, value, st.inserts + 1),
                            evicted |-> <<>>], cacheSize)
         IN [st EXCEPT !.entries = c.entries,
                       !.inserts = IF isNew THEN @ + 1 ELSE @,
                       !.last = [op |-> "insert", key |-> cacheKey, cacheSize |-> cacheSize,
                                 evicted |-> c.evicted]]

rememberKey(st, cacheKey, value, cacheSize) ==
    IF cacheSize <= 0
    THEN [st EXCEPT !.last = [op |-> "skip", key |-> cacheKey, cacheSize |-> cacheSize,
                              evicted |-> <<>>]]
    ELSE LET isNew == SegIndex(st.entries, cacheKey, 1) = 0
             c == SegEvict([entries |-> SegSet(st.entries, cacheKey, value, st.inserts + 1),
                            evicted |-> <<>>], cacheSize)
         IN [st EXCEPT !.entries = c.entries,
                       !.inserts = IF isNew THEN @ + 1 ELSE @,
                       !.last = [op |-> "insert", key |-> cacheKey, cacheSize |-> cacheSize,
                                 evicted |-> c.evicted]]

\* segmentImageIntoLines lines 45-52 for call number id: a hit returns the
\* cached slices, a miss goes on to decode the image
segmentCacheCheck(st, id, cacheKey, cacheSize) ==
    IF cacheSize > 0 /\ SegIndex(st.entries, cacheKey, 1) # 0
    THEN [st EXCEPT !.nCalls = id,
                    !.last = [op |-> "hit", key |-> cacheKey, cacheSize |-> cacheSize,
                              evicted |-> <<>>]]
    ELSE [st EXCEPT !.nCalls = id,
                    !.pending = @ \cup {[id |-> id, key |-> cacheKey, cacheSize |-> cacheSize]},
                    !.last = [op |-> "miss", key |-> cacheKey, cacheSize |-> cacheSize,
                              evicted |-> <<>>]]

SegCacheFrame ==
    UNCHANGED <<cancelled, schedVars, runVars, pageVars, httpVars, auxVars, err, note, retry>>

\* segmentImageIntoLines is called for some image with some cacheSize
SegCacheCall ==
    /\ seg.pc = "cache"
    /\ seg.nCalls < MaxSegCalls
    /\ \E cacheKey \in SegKeys, cacheSize \in CacheSizes :
          seg' = segmentCacheCheck(seg, seg.nCalls + 1, cacheKey, cacheSize)
    /\ SegCacheFrame

\* a call that missed has its slices and remembers them (lines 69 and 106);
\* the value is named after the call that computed it
SegCacheRemember ==
    /\ seg.pc = "cache"
    /\ \E c \in seg.pending :
          seg' = rememberKey([seg EXCEPT !.pending = @ \ {c}], c.key, c.id, c.cacheSize)
    /\ SegCacheFrame

\* a call that missed throws before remember (the image does not load)
SegCacheThrow ==
    /\ seg.pc = "cache"
    /\ \E c \in seg.pending :
          seg' = [seg EXCEPT !.pending = @ \ {c},
                             !.last = [op |-> "threw", key |-> c.key,
                                       cacheSize |-> c.cacheSize, evicted |-> <<>>]]
    /\ SegCacheFrame

\* clearSegmentationCache()
SegCacheClear ==
    /\ seg.pc = "cache"
    /\ seg.entries # <<>>
    /\ seg' = [seg EXCEPT !.entries = <<>>,
                          !.last = [op |-> "clear", key |-> "", cacheSize |-> 0,
                                    evicted |-> <<>>]]
    /\ SegCacheFrame

InitSegCache ==
    /\ cancelled = FALSE
    /\ seg = SegCacheInit
    /\ err = [pc |-> "unused"]
    /\ note = [pc |-> "unused"]
    /\ retry = [pc |-> "unused"]
    /\ SchedUnused
    /\ PageUnused
    /\ HttpUnused
    /\ AuxUnused

NextSegCache ==
    \/ SegCacheCall
    \/ SegCacheRemember
    \/ SegCacheThrow
    \/ SegCacheClear

SpecSegCache == InitSegCache /\ [][NextSegCache]_vars

\* the step is an operation of kind op on the cache
SegCacheOp(op) == seg' # seg /\ seg'.last.op = op

\* the keys of the Map, in its order
SegCacheKeys(st) == [i \in 1..Len(st.entries) |-> st.entries[i].key]

\* C34: after an insert the segmentation cache holds at most cacheSize
\* entries; the entries an insert evicts are the first ones of the Map, each
\* added to the Map before every entry that stays; a cache hit leaves the
\* Map, and with it the eviction order, as it was; a call with cacheSize 0
\* never hits and its remember leaves the Map as it was
C34_BoundedInsertionOrder ==
    /\ [][SegCacheOp("insert")
            => /\ Len(seg'.entries) <= seg'.last.cacheSize
               /\ \E n \in 0..Len(seg.entries) + 1 :
                     /\ Len(seg'.last.evicted) = n
                     /\ \A i \in 1..n : \A j \in 1..Len(seg'.entries) :
                           /\ seg'.last.evicted[i] # seg'.entries[j].key
                           /\ \E e \in {seg.entries[h] : h \in 1..Len(seg.entries)}
                                    \cup {[key |-> seg'.last.key, value |-> seg.nCalls,
                                           insertedAt |-> seg'.inserts]} :
                                 /\ e.key = seg'.last.evicted[i]
                                 /\ e.insertedAt < seg'.entries[j].insertedAt]_vars
    /\ [](\A i, j \in 1..Len(seg.entries) : i < j
             => seg.entries[i].insertedAt < seg.entries[j].insertedAt)
    /\ [][SegCacheOp("hit")
            => seg'.entries = seg.entries /\ seg'.last.cacheSize > 0]_vars
    /\ [][seg' # seg /\ seg'.last.cacheSize = 0 /\ seg'.last.op \in {"hit", "miss", "skip", "insert"}
            => /\ seg'.entries = seg.entries
               /\ seg'.last.op \in {"miss", "skip"}]_vars

\* with cacheSize 2 the cache held k1 and k2 and the insert of k3 evicted
\* k1, the key added first, whether or not k1 had been served since
C34_Witness ==
    /\ seg.pc = "cache"
    /\ seg.last = [op |-> "insert", key |-> "k3", cacheSize |-> 2, evicted |-> <<"k1">>]
    /\ SegCacheKeys(seg) = <<"k2", "k3">>
    /\ seg.pending = {}

\* ================= similarity of empty candidates (SpecLine)
\* the line has a letter or digit of a-z, A-Z, 0-9 (the illegibility
\* marker has letters)
HasAlnum(line) ==
    \E i \in 1..Len(ToLowerCase(line)) : IsLowerAlnum(ToLowerCase(line)[i])

\* the similarity transcribeImageByLines computed for the slice finished last
LastSimilarity == lineSimilarity(page.lastLine.candidateA, page.lastLine.candidateB)

\* the two candidates of the slice finished last: both empty, exactly one empty
BothEmpty == page.lastLine.candidateA = <<>> /\ page.lastLine.candidateB = <<>>
OneEmpty == (page.lastLine.candidateA = <<>>) # (page.lastLine.candidateB = <<>>)
OtherCandidate ==
    IF page.lastLine.candidateA = <<>> THEN page.lastLine.candidateB
    ELSE page.lastLine.candidateA

\* C35 as stated: the similarity of the two candidates of a line is 1 when
\* both are empty and 0 when exactly one of them is empty
C35_Original ==
    page.lastLine.slice = 1 =>
        /\ BothEmpty => LastSimilarity.num = LastSimilarity.den
        /\ OneEmpty => LastSimilarity.num = 0

\* C35: the similarity of the two candidates of a line is 1 when both are
\* empty (consensus, no arbitration) and 0 when exactly one of them is empty
\* and the other has a letter or digit (no consensus, the arbiter is called)
C35_EmptySimilarity ==
    page.lastLine.slice = 1 =>
        /\ BothEmpty => /\ LastSimilarity.num = LastSimilarity.den
                        /\ ~page.lastLine.arbiter.used
        /\ OneEmpty /\ HasAlnum(OtherCandidate)
              => /\ LastSimilarity.num = 0
                 /\ page.lastLine.arbiter.used

\* an empty candidate met the candidate "a" and the arbiter was called
C35_Witness ==
    /\ page.lastLine.slice = 1
    /\ page.lastLine.candidateA = <<>>
    /\ page.lastLine.candidateB = <<"a">>
    /\ page.lastLine.arbiter.used

\* ====================== termination of runWithConcurrency (SpecSettle)
\* runWithConcurrency has been called, every launched task settles, and
\* the promise reactions that are queued are run
SpecSettle ==
    /\ Init
    /\ [][Next]_vars
    /\ WF_vars(Start)
    /\ \A i \in 1..MaxTasks : WF_vars(TaskResolve(i) \/ TaskReject(i))
    /\ WF_vars(ThenJob)
    /\ WF_vars(CatchJob)
    /\ WF_vars(FinallyJob)

\* C36 as stated: when every launched task settles, the promise returned by
\* runWithConcurrency is eventually resolved or rejected, for every task
\* list (the empty one included) and every limit >= 1
C36_Original == <>(outcome.kind # "pending")

\* the same for the task lists that are not empty
C36_NonEmptySettles == (nTasks >= 1) => <>(outcome.kind # "pending")

\* ======================= the token check before a request (SpecHttp)
\* the step calls fetchJson: the top of the loop without a rate limiter,
\* or the end of the wait for a turn
FetchJsonCalled ==
    /\ http' # http
    /\ \/ http.pc = "loop" /\ ~http.useLimiter
       \/ http.pc = "turn"

\* C37: requestUrl is called only in a step in which the token is not
\* cancelled; every call of fetchJson, the first attempt and each retry
\* alike, made while the token is cancelled sends nothing and makes
\* executeWithRetry fail with the cancellation error
C37_NoRequestWhenCancelled ==
    /\ [][http'.networkAttempts # http.networkAttempts
            => /\ ~cancelled
               /\ FetchJsonCalled
               /\ http'.networkAttempts = http.networkAttempts + 1
               /\ http'.pc = "request"]_vars
    /\ [][FetchJsonCalled /\ cancelled
            => /\ http'.networkAttempts = http.networkAttempts
               /\ http'.pc = "failed"
               /\ http'.error = CancelledError]_vars
    /\ [][FetchJsonCalled /\ ~cancelled => http'.pc = "request"]_vars

\* the first attempt was sent and failed, the token was cancelled while
\* executeWithRetry waited, and the second attempt was not sent
C37_Witness ==
    /\ cancelled
    /\ http.pc = "failed"
    /\ http.error = CancelledError
    /\ http.attempt = 2
    /\ http.networkAttempts = 1
    /\ http.lastError = CancelledError

\* =============== providers/http.ts: fetchWithRetry callers and tokens
\* Callers of fetchWithRetry come with a key, a token and their own
\* useCache option (the TTL is positive).  A response is named after the
\* request (task) that fetched it: equal names are copies of one response.
MaxCallers == 3

CallerKeys == {"k1", "k2"}
CallerTokens == {"t1", "t2"}
CallerStatuses == {200, 401}

CallersInit ==
    [pc |-> "callers",
     cancelledTokens |-> {},    \* the tokens whose cancel() was called
     responseCache |-> {},      \* responseCache: [key, value]
     inFlightRequests |-> {},   \* inFlightRequests: [key, task]
     tasks |-> {},              \* executeWithRetry calls not settled: [id, key, token, useCache]
     waiting |-> {},            \* callers awaiting a task: [id, key, token, task, cancelledAtCall]
     nCalls |-> 0,              \* history: fetchWithRetry calls made
     settled |-> {}]            \* history: how each call ended, see CallSettled

ValueOutcome(value) == [kind |-> "value", value |-> value, error |-> NoError]
ErrorOutcome(error) == [kind |-> "error", value |-> 0, error |-> error]

\* how a fetchWithRetry call ended: served from the cache, from its own
\* request ("network") or from the request of another call ("attached")
CallSettled(id, tok, via, task, origToken, o, atCall, atSettle) ==
    [id |-> id, token |-> tok, via |-> via, task |-> task, origToken |-> origToken,
     kind |-> o.kind, value |-> o.value, error |-> o.error,
     cancelledAtCall |-> atCall, cancelledAtSettle |-> atSettle]

\* what executeWithRetry settles with when the last response has that status:
\* fetchJson 148-165 and the catch of executeWithRetry 95-99 turn everything
\* into CancelledError once the token is cancelled
RequestOutcomeIgnoresToken(status, isCancelled, value) ==
    IF status >= 200 /\ status < 300
    THEN ValueOutcome(value)
    ELSE ErrorOutcome(FetchJsonError(status, FALSE))

RequestOutcome(status, isCancelled, value) ==
    IF ~isCancelled /\ status >= 200 /\ status < 300
    THEN ValueOutcome(value)
    ELSE ErrorOutcome(FetchJsonError(status, isCancelled))

\* line 49: existing.then((value) => cloneResponse(value)), whatever the
\* token of the attached caller
AttachedOutcomeChecksToken(o, ownCancelled) ==
    IF ownCancelled THEN ErrorOutcome(CancelledError) ELSE o

AttachedOutcome(o, ownCancelled) == o

\* lines 40-45: return cached, whatever the token of the caller
CachedOutcome(value, ownCancelled) == ValueOutcome(value)

\* fetchWithRetry(url, init, token, provider, options) up to its return,
\* for call number id
fetchWithRetryCall(st, id, key, tok, useCache) ==
    LET isCancelled == tok \in st.cancelledTokens
        hits == {e \in st.responseCache : e.key = key}
        existing == {p \in st.inFlightRequests : p.key = key}
    IN IF useCache /\ hits # {}
       THEN LET e == CHOOSE e \in hits : TRUE
            IN [st EXCEPT !.nCalls = id,
                          !.settled = @ \cup {CallSettled(id, tok, "cache", e.value, tok,
                                                          CachedOutcome(e.value, isCancelled),
                                                          isCancelled, isCancelled)}]
       ELSE IF existing # {}
       THEN LET p == CHOOSE p \in existing : TRUE
            IN [st EXCEPT !.nCalls = id,
                          !.waiting = @ \cup {[id |-> id, key |-> key, token |-> tok,
                                               task |-> p.task, cancelledAtCall |-> isCancelled]}]
       ELSE [st EXCEPT !.nCalls = id,
                       !.tasks = @ \cup {[id |-> id, key |-> key, token |-> tok,
                                          useCache |-> useCache]},
                       !.inFlightRequests = @ \cup {[key |-> key, task |-> id]},
                       !.waiting = @ \cup {[id |-> id, key |-> key, token |-> tok,
                                            task |-> id, cancelledAtCall |-> isCancelled]}]

\* executeWithRetry of task t settles after a last response of that status:
\* .then writes the cache, .finally forgets the request, and every caller
\* awaiting the task is settled
executeWithRetrySettles(st, t, status) ==
    LET o == RequestOutcome(status, t.token \in st.cancelledTokens, t.id)
        mine == {w \in st.waiting : w.task = t.id}
        ends == {CallSettled(w.id, w.token,
                             IF w.id = t.id THEN "network" ELSE "attached",
                             t.id, t.token,
                             IF w.id = t.id THEN o
                             ELSE AttachedOutcome(o, w.token \in st.cancelledTokens),
                             w.cancelledAtCall, w.token \in st.cancelledTokens) : w \in mine}
    IN [st EXCEPT !.responseCache =
                      IF o.kind = "value" /\ t.useCache
                      THEN {e \in @ : e.key # t.key} \cup {[key |-> t.key, value |-> o.value]}
                      ELSE @,
                  !.inFlightRequests = {p \in @ : p.key # t.key},
                  !.tasks = @ \ {t},
                  !.waiting = @ \ mine,
                  !.settled = @ \cup ends]

CallersFrame ==
    UNCHANGED <<cancelled, schedVars, runVars, pageVars, httpVars, limiter, token, req, extVars>>

CallersCall ==
    /\ fetch.pc = "callers"
    /\ fetch.nCalls < MaxCallers
    /\ \E key \in CallerKeys, tok \in CallerTokens, useCache \in BOOLEAN :
          fetch' = fetchWithRetryCall(fetch, fetch.nCalls + 1, key, tok, useCache)
    /\ CallersFrame

CallersSettle ==
    /\ fetch.pc = "callers"
    /\ \E t \in fetch.tasks, status \in CallerStatuses :
          fetch' = executeWithRetrySettles(fetch, t, status)
    /\ CallersFrame

\* token.cancel() of one of the tokens
CallersCancel ==
    /\ fetch.pc = "callers"
    /\ \E tok \in CallerTokens \ fetch.cancelledTokens :
          fetch' = [fetch EXCEPT !.cancelledTokens = @ \cup {tok}]
    /\ CallersFrame

InitCallers ==
    /\ ExtUnused
    /\ cancelled = FALSE
    /\ fetch = CallersInit
    /\ limiter = [pc |-> "unused"]
    /\ token = [pc |-> "unused"]
    /\ req = [pc |-> "unused"]
    /\ SchedUnused
    /\ PageUnused
    /\ HttpUnused

NextCallers ==
    \/ CallersCall
    \/ CallersSettle
    \/ CallersCancel

SpecCallers == InitCallers /\ [][NextCallers]_vars

\* C38 as stated: a fetchWithRetry call whose token is cancelled when it
\* settles (cancelled before the call, or before the response arrived)
\* fails with the cancellation error, however it is served
C38_Original ==
    \A s \in fetch.settled :
        s.cancelledAtSettle => s.kind = "error" /\ s.error = CancelledError

\* C38: a fetchWithRetry call that is served by a request made with its
\* own token (its own request, or an in-flight request of the same token)
\* and whose token is cancelled when the request settles fails with the
\* cancellation error and returns no response value
C38_OwnRequestCancelled ==
    \A s \in fetch.settled :
        s.cancelledAtSettle /\ s.via # "cache" /\ s.origToken = s.token
            => s.kind = "error" /\ s.error = CancelledError

\* a call made before the cancel whose response (status 200 or not) came
\* after it
C38_Witness ==
    \E s \in fetch.settled :
        /\ s.via = "network"
        /\ ~s.cancelledAtCall
        /\ s.cancelledAtSettle
        /\ s.error = CancelledError

\* C39: a caller attached to an in-flight request ends as the originator of
\* the request does: with the same response, or with the same error, the
\* cancellation error of the originator's token included, whatever its own
\* token and options
C39_AttachedSharesOutcome ==
    \A s \in fetch.settled :
        s.via = "attached"
            => \E o \in fetch.settled :
                  /\ o.id = s.task
                  /\ o.via = "network"
                  /\ o.kind = s.kind
                  /\ o.value = s.value
                  /\ o.error = s.error

\* the originator's token was cancelled, the attached caller's was not,
\* and both ended with the cancellation error
C39_Witness ==
    \E s \in fetch.settled :
        /\ s.via = "attached"
        /\ s.token # s.origToken
        /\ ~s.cancelledAtSettle
        /\ s.error = CancelledError

\* ----------------------------- the page-format call of transcribeImageByLines
\* the last thing that happened to a provider call of the current attempt
LastEvent(st) ==
    IF st.sliceLog = <<>> THEN Event("none", "none") ELSE st.sliceLog[Len(st.sliceLog)]

\* this step is the rejection of the page-format call that withRetry does
\* not retry
FormatGivenUp ==
    /\ page.pc = "call"
    /\ page.callKind = "F"
    /\ page' # page
    /\ LastEvent(page') = Event("reject", "F")
    /\ page'.pc # "lineBackoff"

\* C40: when the page-format call fails and withRetry gives up,
\* transcribeImageByLines throws that error (to the catch block of
\* transcribeImageWithRecovery) and returns nothing; and a page attempt
\* that returns a raw concatenation different from the formatted text ends
\* with a format call that resolved, with empty output or with output that
\* changes the words
C40_NoRawFallback ==
    /\ [][FormatGivenUp =>
             /\ page'.pc \in {"failed", "pageBackoff"}
             /\ page'.error \in CallErrors
             /\ page'.result = <<>>
             /\ LineGivesUp(page.lineAttempt, page'.error)]_vars
    /\ [](page.pc = "returned" /\ page.rawPage # <<>> /\ page.result = page.rawPage
             /\ page.formatted # page.rawPage
          => /\ LastEvent(page) = Event("resolve", "F")
             /\ \/ page.formatted = <<>>
                \/ ~preservesWordSequence(page.rawPage, page.formatted))
    /\ [](page.pc = "failed" => page.result = <<>>)

\* a format call failed twice (one line-level retry), the page failed and
\* the raw page, which is not empty, was not returned
C40_Witness ==
    /\ page.pc = "failed"
    /\ LastEvent(page) = Event("reject", "F")
    /\ page.lineAttempt >= 1
    /\ page.rawPage # <<>>
    /\ page.result = <<>>

\* the raw page was returned because the formatted text changed the words
C40_WitnessRaw ==
    /\ page.pc = "returned"
    /\ page.formatted # <<>>
    /\ page.result = page.rawPage
    /\ page.result # page.formatted

====
